---- MODULE Spec2Model ----
(***************************************************************************)
(* home-bt-broker: the Bluetooth manager (internal/bluetooth) over the     *)
(* org.bluez object tree, the HTTP handlers (internal/handlers) that drive *)
(* it, the authentication gate and the token handlers over the user_tokens *)
(* table, the WirePlumber configuration file (internal/wireplumber), and   *)
(* main, which sets them up.                                               *)
(*                                                                         *)
(* Strings the code takes apart or builds (object paths, MAC addresses)    *)
(* are sequences of one-character strings, so that strings.ReplaceAll,     *)
(* strings.HasPrefix and fmt.Sprintf are computed character by character.  *)
(* Names the code only compares (interface names, property names) are      *)
(* plain strings.                                                          *)
(***************************************************************************)
EXTENDS Naturals, Sequences, FiniteSets, TLC

VARIABLES
    tree,   \* the object tree the org.bluez service exposes right now
    req,    \* the HTTP requests: one record per request slot
    mgr,    \* the call made directly on the BluetoothManager
    conn,   \* the manager's bus connection (bm.conn)
    store,  \* the user_tokens table: its rows
    web,    \* the requests at the authentication gate and the token handlers
    cfg     \* the WirePlumber configuration file and the last call on it

vars == <<tree, req, mgr, conn, store, web, cfg>>

----------------------------------------------------------------------------
(* Constants of the bluetooth package.                                     *)

BluezService == "org.bluez"
BluezObjectPath == <<"/", "o", "r", "g", "/", "b", "l", "u", "e", "z">>
AdapterInterface == "org.bluez.Adapter1"
DeviceInterface == "org.bluez.Device1"
ObjectManagerIface == "org.freedesktop.DBus.ObjectManager"
PropertiesIface == "org.freedesktop.DBus.Properties"

----------------------------------------------------------------------------
(* Bounds and the input strings drawn from them.                           *)

\* The longest device MAC argument, counted in pieces of MacPieces.
MaxLen == 3

\* The pieces device MAC arguments are made of: the separator the code
\* replaces, the character it replaces it by, an ordinary character, and the
\* marker the code itself puts in front of the MAC.
DevMarker == <<"/", "d", "e", "v", "_">>
MacPieces == {<<":">>, <<"_">>, <<"a">>, DevMarker}

\* Every string made of at most n pieces.
RECURSIVE StringsUpTo(_)
StringsUpTo(n) ==
    IF n = 0 THEN {<<>>}
    ELSE LET shorter == StringsUpTo(n - 1)
         IN  shorter \cup {s \o p : s \in shorter, p \in MacPieces}

MacArgs == StringsUpTo(MaxLen)

\* Object paths of the tree.
H1 == <<"/", "h", "1">>
H10 == <<"/", "h", "1", "0">>
MacAA == <<"a", ":", "a">>
MacBB == <<"b", ":", "b">>
MacCC == <<"c", ":", "c">>
D1a == H1 \o <<"/", "d", "e", "v", "_", "a", "_", "a">>
D1b == H1 \o <<"/", "d", "e", "v", "_", "b", "_", "b">>
D10a == H10 \o <<"/", "d", "e", "v", "_", "a", "_", "a">>

----------------------------------------------------------------------------
(* dbus.Variant: a value with its D-Bus signature.                         *)

VS(s) == [sig |-> "s", val |-> s]
VB(b) == [sig |-> "b", val |-> b]

NoProps == [n \in {} |-> VB(FALSE)]

AdapterProps(addr) ==
    [n \in {"Name", "Address", "Powered", "Discoverable", "Discovering"} |->
        CASE n = "Name" -> VS(<<"n">>)
          [] n = "Address" -> VS(addr)
          [] n = "Powered" -> VB(TRUE)
          [] OTHER -> VB(FALSE)]

DeviceProps(addr, trusted, connected) ==
    [n \in {"Name", "Address", "Paired", "Trusted", "Connected"} |->
        CASE n = "Name" -> VS(<<"d">>)
          [] n = "Address" -> VS(addr)
          [] n = "Paired" -> VB(TRUE)
          [] n = "Trusted" -> VB(trusted)
          [] OTHER -> VB(connected)]

\* An object of the tree: interface name -> property bag.
AdapterObject(props) == [i \in {AdapterInterface, PropertiesIface} |->
                            IF i = AdapterInterface THEN props ELSE NoProps]
DeviceObject(props) == [i \in {DeviceInterface, PropertiesIface} |->
                            IF i = DeviceInterface THEN props ELSE NoProps]

TreePaths == {H1, H10, D1a, D1b, D10a}

\* The objects the service may expose at each path.
ObjectChoices(p) ==
    CASE p = H1 -> {AdapterObject(AdapterProps(MacAA)), AdapterObject(NoProps)}
      [] p = H10 -> {AdapterObject(AdapterProps(MacAA)),
                     AdapterObject(AdapterProps(MacBB))}
      [] p = D1a -> {DeviceObject(DeviceProps(MacAA, FALSE, FALSE)),
                     DeviceObject(DeviceProps(MacAA, TRUE, TRUE))}
      [] p = D1b -> {DeviceObject(DeviceProps(MacBB, TRUE, FALSE)),
                     DeviceObject(NoProps)}
      [] OTHER -> {DeviceObject(DeviceProps(MacAA, TRUE, FALSE))}

\* The object trees the service may expose: path -> interface -> property
\* bag, over any subset of the paths.
Trees ==
    UNION {{t \in [S -> UNION {ObjectChoices(p) : p \in S}] :
                \A p \in S : t[p] \in ObjectChoices(p)} : S \in SUBSET TreePaths}

\* The orders in which a range over a Go map may visit the keys S.
RECURSIVE Orders(_)
Orders(S) ==
    IF S = {} THEN {<<>>}
    ELSE UNION {{<<x>> \o o : o \in Orders(S \ {x})} : x \in S}

\* The orders in which a range over the decoded tree t may visit its keys,
\* one for each order of the keys that expose iface: the loops of the
\* manager skip every other key, wherever the range meets it.
RangeOrders(t, iface) ==
    LET with == {p \in DOMAIN t : iface \in DOMAIN t[p]}
        rest == CHOOSE o \in Orders(DOMAIN t \ with) : TRUE
    IN  {o \o rest : o \in Orders(with)}

----------------------------------------------------------------------------
(* Strings.                                                                *)

\* strings.ReplaceAll(s, old, new) for one-character old and new.
ReplaceAll(s, old, new) == [i \in 1..Len(s) |-> IF s[i] = old THEN new ELSE s[i]]

\* strings.HasPrefix(s, prefix).
HasPrefix(s, prefix) ==
    Len(s) >= Len(prefix) /\ SubSeq(s, 1, Len(prefix)) = prefix

\* strings.ToLower(s), over the letters the addresses are written with.
ToLower(s) ==
    [i \in 1..Len(s) |-> CASE s[i] = "A" -> "a"
                            [] s[i] = "B" -> "b"
                            [] s[i] = "C" -> "c"
                            [] OTHER -> s[i]]

\* Mutant: the "dev_" marker left out of the format string.
DevicePath_NoMarker(adapterPath, macAddress) ==
    adapterPath \o <<"/">> \o ReplaceAll(macAddress, ":", "_")

\* Mutant: the colons removed from the MAC instead of replaced.
DevicePath_DropsColons(adapterPath, macAddress) ==
    adapterPath \o DevMarker \o SelectSeq(macAddress, LAMBDA c : c # ":")

\* fmt.Sprintf("%s/dev_%s", adapterPath, strings.ReplaceAll(macAddress, ":", "_"))
DevicePath(adapterPath, macAddress) ==
    adapterPath \o DevMarker \o ReplaceAll(macAddress, ":", "_")

----------------------------------------------------------------------------
(* Errors: fmt.Errorf(msg ... %w): the message, the MAC it names and the   *)
(* error it wraps ("" when it names or wraps none).                        *)

Nil == [msg |-> "", mac |-> <<>>, wraps |-> ""]
Errorf(msg, mac, wraps) == [msg |-> msg, mac |-> mac, wraps |-> wraps]

\* The outcomes of the bulk query: the reply arrives and decodes, the bus
\* call fails (call.Err), or the reply does not decode (call.Store).
FetchOutcomes == {"ok", "callErr", "storeErr"}

----------------------------------------------------------------------------
(* The remote calls.                                                       *)

\* obj.Call(iface.member, 0, args...) on the object at path; reply is the
\* call.Err the caller gets back ("" for none).
BusCall(path, iface, member, args) ==
    [dest |-> BluezService, path |-> path, iface |-> iface, member |-> member,
     args |-> args, reply |-> ""]

FetchCall == BusCall(BluezObjectPath, ObjectManagerIface, "GetManagedObjects", <<>>)

\* The bulk query as made, with its reply under outcome f.
Fetch(f) == [FetchCall EXCEPT !.reply = IF f = "callErr" THEN "TransportError" ELSE ""]

Exposes(t, path, iface) == path \in DOMAIN t /\ iface \in DOMAIN t[path]

\* Whether the service can carry out a command call on its tree t: the
\* object addressed, and for RemoveDevice the device named, must be there.
RemoteAccepts(t, call) ==
    CASE call.member = "RemoveDevice" ->
            /\ Exposes(t, call.path, AdapterInterface)
            /\ Exposes(t, call.args[1], DeviceInterface)
      [] call.member = "Set" -> Exposes(t, call.path, call.args[1])
      [] OTHER -> Exposes(t, call.path, call.iface)

\* The service's tree after it carried out a command call: a property-set
\* stores the value, RemoveDevice unregisters the device; Connect and Pair
\* only start an exchange with the peer.
RemoteEffect(t, call) ==
    CASE call.member = "RemoveDevice" ->
            [p \in DOMAIN t \ {call.args[1]} |-> t[p]]
      [] call.member = "Set" ->
            LET bag == t[call.path][call.args[1]]
                set == [n \in DOMAIN bag \cup {call.args[2]} |->
                            IF n = call.args[2] THEN call.args[3] ELSE bag[n]]
            IN  [t EXCEPT ![call.path][call.args[1]] = set]
      [] OTHER -> t

\* call.Err of a command call: "" when the service carried it out.  A call
\* can always fail; it succeeds only when the service accepts it.
CallErr(t, call, ok) == IF ok /\ RemoteAccepts(t, call) THEN "" ELSE "TransportError"

----------------------------------------------------------------------------
(* BluetoothManager: the queries.  Each returns the remote calls it made,  *)
(* its error and its value.  t is the service's tree at the time of the    *)
(* call, f the outcome of the bulk query, ord the order in which the range *)
(* over the decoded map visits its keys.                                   *)

Str(props, n) == IF n \in DOMAIN props THEN props[n].val ELSE <<>>
Bool(props, n) == IF n \in DOMAIN props THEN props[n].val ELSE FALSE

AdapterOf(path, props) ==
    [Path |-> path, Name |-> Str(props, "Name"), Address |-> Str(props, "Address"),
     Powered |-> Bool(props, "Powered"), Discoverable |-> Bool(props, "Discoverable"),
     Discovering |-> Bool(props, "Discovering")]

DeviceOf(path, adapterPath, props) ==
    [Path |-> path, Name |-> Str(props, "Name"), Address |-> Str(props, "Address"),
     Paired |-> Bool(props, "Paired"), Trusted |-> Bool(props, "Trusted"),
     Connected |-> Bool(props, "Connected"), Adapter |-> adapterPath]

Result(calls, err, val) == [calls |-> calls, err |-> err, val |-> val]

\* The properties read with Value().(string) and with Value().(bool).
StringProps == {"Name", "Address"}
AdapterFlags == {"Powered", "Discoverable", "Discovering"}
DeviceFlags == {"Paired", "Trusted", "Connected"}

\* Whether a type assertion on a property of the bag fails: the property is
\* there and its value has another type than the assertion names.
AssertionFails(props, flags) ==
    \E n \in DOMAIN props : \/ (n \in StringProps /\ props[n].sig # "s")
                             \/ (n \in flags /\ props[n].sig # "b")

\* A failed type assertion panics: the call does not return, and the panic
\* goes up through its callers.
Panic == Errorf("interface conversion", <<>>, "panic")

FetchErr(f) ==
    IF f = "callErr" THEN Errorf("failed to get managed objects", <<>>, "TransportError")
    ELSE IF f = "storeErr" THEN Errorf("failed to parse managed objects", <<>>, "DecodeError")
    ELSE Nil

\* Mutant: the adapters of the last GetAdapters call are kept and returned
\* again without a fetch.
GetAdapters_Cached(t, f, ord) ==
    IF mgr.pc = "done" /\ mgr.op = "GetAdapters" /\ mgr.err = Nil
    THEN Result(<<>>, Nil, mgr.val)
    ELSE IF FetchErr(f) # Nil THEN Result(<<Fetch(f)>>, FetchErr(f), <<>>)
    ELSE LET paths == SelectSeq(ord, LAMBDA p : AdapterInterface \in DOMAIN t[p])
         IN  Result(<<Fetch(f)>>, Nil,
                    [i \in 1..Len(paths) |->
                        AdapterOf(paths[i], t[paths[i]][AdapterInterface])])

\* Mutant: an adapter without an Address is left out of the result.
GetAdapters_SkipsNoAddress(t, f, ord) ==
    IF FetchErr(f) # Nil THEN Result(<<Fetch(f)>>, FetchErr(f), <<>>)
    ELSE LET paths == SelectSeq(ord, LAMBDA p : /\ AdapterInterface \in DOMAIN t[p]
                                                /\ "Address" \in DOMAIN t[p][AdapterInterface])
         IN  Result(<<Fetch(f)>>, Nil,
                    [i \in 1..Len(paths) |->
                        AdapterOf(paths[i], t[paths[i]][AdapterInterface])])

GetAdapters(t, f, ord) ==
    IF FetchErr(f) # Nil THEN Result(<<Fetch(f)>>, FetchErr(f), <<>>)
    ELSE LET paths == SelectSeq(ord, LAMBDA p : AdapterInterface \in DOMAIN t[p])
         IN  IF \E i \in 1..Len(paths) :
                    AssertionFails(t[paths[i]][AdapterInterface], AdapterFlags)
             THEN Result(<<Fetch(f)>>, Panic, <<>>)
             ELSE Result(<<Fetch(f)>>, Nil,
                         [i \in 1..Len(paths) |->
                             AdapterOf(paths[i], t[paths[i]][AdapterInterface])])

\* Mutant: the prefix test without the "/" after the adapter path.
DeviceBelongs_NoSlash(path, adapterPath) == HasPrefix(path, adapterPath)

DeviceBelongs(path, adapterPath) == HasPrefix(path, adapterPath \o <<"/">>)

GetDevices(t, adapterPath, f, ord) ==
    IF FetchErr(f) # Nil THEN Result(<<Fetch(f)>>, FetchErr(f), <<>>)
    ELSE LET paths == SelectSeq(ord, LAMBDA p : /\ DeviceInterface \in DOMAIN t[p]
                                                /\ DeviceBelongs(p, adapterPath))
         IN  IF \E i \in 1..Len(paths) :
                    AssertionFails(t[paths[i]][DeviceInterface], DeviceFlags)
             THEN Result(<<Fetch(f)>>, Panic, <<>>)
             ELSE Result(<<Fetch(f)>>, Nil,
                         [i \in 1..Len(paths) |->
                             DeviceOf(paths[i], adapterPath, t[paths[i]][DeviceInterface])])

\* Mutant: the trusted filter tests the flag of the connected filter.
IsTrusted_Connected(device) == device.Connected

IsTrusted(device) == device.Trusted

\* Mutant: the Trusted flag of each device is set again once it is read.
GetTrustedDevices_SetsFlag(t, adapterPath, f, ord) ==
    LET got == GetDevices(t, adapterPath, f, ord)
        trusted == SelectSeq(got.val, IsTrusted)
    IN  IF got.err # Nil THEN Result(got.calls, got.err, <<>>)
        ELSE Result(got.calls \o [i \in 1..Len(trusted) |->
                                     BusCall(trusted[i].Path, PropertiesIface, "Set",
                                             <<DeviceInterface, "Trusted", VB(TRUE)>>)],
                    Nil, trusted)

GetTrustedDevices(t, adapterPath, f, ord) ==
    LET got == GetDevices(t, adapterPath, f, ord)
    IN  IF got.err # Nil THEN Result(got.calls, got.err, <<>>)
        ELSE Result(got.calls, Nil, SelectSeq(got.val, IsTrusted))

\* Mutant: the connected filter tests the flag of the trusted filter.
IsConnected_Trusted(device) == device.Trusted

IsConnected(device) == device.Connected

GetConnectedDevices(t, adapterPath, f, ord) ==
    LET got == GetDevices(t, adapterPath, f, ord)
    IN  IF got.err # Nil THEN Result(got.calls, got.err, <<>>)
        ELSE Result(got.calls, Nil, SelectSeq(got.val, IsConnected))

\* Mutant: the addresses compared as strings.EqualFold compares them.
AddressMatches_FoldsCase(adapter, macAddress) ==
    ToLower(adapter.Address) = ToLower(macAddress)

\* Mutant: the loop returns the first adapter it visits, matching or not.
AddressMatches_Any(adapter, macAddress) == TRUE

\* Mutant: the address is compared as strings.HasPrefix compares it.
AddressMatches_Prefix(adapter, macAddress) == HasPrefix(adapter.Address, macAddress)

AddressMatches(adapter, macAddress) == adapter.Address = macAddress

GetAdapterPathByMAC(t, macAddress, f, ord) ==
    LET got == GetAdapters(t, f, ord)
        hits == {i \in 1..Len(got.val) : AddressMatches(got.val[i], macAddress)}
    IN  IF got.err # Nil THEN Result(got.calls, got.err, <<>>)
        ELSE IF hits # {}
             THEN Result(got.calls, Nil,
                         got.val[CHOOSE i \in hits : \A j \in hits : i <= j].Path)
             ELSE Result(got.calls,
                         Errorf("adapter with MAC address not found", macAddress, ""),
                         <<>>)

----------------------------------------------------------------------------
(* BluetoothManager: the commands.  Each returns the remote calls it made, *)
(* its error and the service's tree after it.  ok: whether the service     *)
(* carries the call out, if it can.                                        *)

CmdResult(calls, err, t) == [calls |-> calls, err |-> err, tree |-> t]

\* Mutant: a failed call is made a second time, and the error names no MAC.
Issue_Retries(t, call, msg, macAddress, ok) ==
    LET callErr == CallErr(t, call, ok)
        made == [call EXCEPT !.reply = callErr]
    IN  IF callErr # "" THEN CmdResult(<<made, made>>, Errorf(msg, <<>>, callErr), t)
        ELSE CmdResult(<<made>>, Nil, RemoteEffect(t, call))

\* One obj.Call(...) of a command, and the "if call.Err != nil" after it.
Issue(t, call, msg, macAddress, ok) ==
    LET callErr == CallErr(t, call, ok)
        made == [call EXCEPT !.reply = callErr]
    IN  IF callErr # "" THEN CmdResult(<<made>>, Errorf(msg, macAddress, callErr), t)
        ELSE CmdResult(<<made>>, Nil, RemoteEffect(t, call))

ConnectDevice(t, adapterPath, macAddress, ok) ==
    LET devicePath == DevicePath(adapterPath, macAddress)
    IN  Issue(t, BusCall(devicePath, DeviceInterface, "Connect", <<>>),
              "failed to connect to device", macAddress, ok)

\* Mutant: the property-set addressed to the adapter instead of the device.
TrustDevice_OnAdapter(t, adapterPath, macAddress, ok) ==
    Issue(t, BusCall(adapterPath, PropertiesIface, "Set",
                     <<DeviceInterface, "Trusted", VB(TRUE)>>),
          "failed to trust device", macAddress, ok)

TrustDevice(t, adapterPath, macAddress, ok) ==
    LET devicePath == DevicePath(adapterPath, macAddress)
    IN  Issue(t, BusCall(devicePath, PropertiesIface, "Set",
                         <<DeviceInterface, "Trusted", VB(TRUE)>>),
              "failed to trust device", macAddress, ok)

PairDevice(t, adapterPath, macAddress, ok) ==
    LET devicePath == DevicePath(adapterPath, macAddress)
    IN  Issue(t, BusCall(devicePath, DeviceInterface, "Pair", <<>>),
              "failed to pair with device", macAddress, ok)

\* Mutant: RemoveDevice called on the device object, like the other commands.
RemoveDevice_OnDevice(t, adapterPath, macAddress, ok) ==
    LET devicePath == DevicePath(adapterPath, macAddress)
    IN  Issue(t, BusCall(devicePath, AdapterInterface, "RemoveDevice", <<devicePath>>),
              "failed to remove device", macAddress, ok)

RemoveDevice(t, adapterPath, macAddress, ok) ==
    LET devicePath == DevicePath(adapterPath, macAddress)
    IN  Issue(t, BusCall(adapterPath, AdapterInterface, "RemoveDevice", <<devicePath>>),
              "failed to remove device", macAddress, ok)

Queries == {"GetDevices", "GetTrustedDevices", "GetConnectedDevices"}
Commands == {"ConnectDevice", "TrustDevice", "RemoveDevice", "PairDevice"}

\* The manager method a handler of that kind calls.
ManagerQuery(kind, t, adapterPath, f, ord) ==
    CASE kind = "GetDevices" -> GetDevices(t, adapterPath, f, ord)
      [] kind = "GetTrustedDevices" -> GetTrustedDevices(t, adapterPath, f, ord)
      [] kind = "GetConnectedDevices" -> GetConnectedDevices(t, adapterPath, f, ord)

ManagerCommand(kind, t, adapterPath, macAddress, ok) ==
    CASE kind = "ConnectDevice" -> ConnectDevice(t, adapterPath, macAddress, ok)
      [] kind = "TrustDevice" -> TrustDevice(t, adapterPath, macAddress, ok)
      [] kind = "RemoveDevice" -> RemoveDevice(t, adapterPath, macAddress, ok)
      [] kind = "PairDevice" -> PairDevice(t, adapterPath, macAddress, ok)

----------------------------------------------------------------------------
(* BluetoothHandler: the HTTP handlers.  A request goes through the        *)
(* handler's steps: the parameter checks, the resolution of the adapter    *)
(* MAC, the manager call; each remote call is one step, and the service's  *)
(* tree may change between two steps.                                      *)

Slots == {"r1"}

\* The adapter and device MAC parameters of the requests.
HttpAdapterMacs == {<<>>, MacAA, MacBB, MacCC}
HttpDeviceMacs == {<<>>, MacAA}

Idle == [kind |-> "", adapter |-> <<>>, mac |-> <<>>, pc |-> "idle", path |-> <<>>,
         status |-> 0, calls |-> <<>>, err |-> Nil, body |-> <<>>, ops |-> <<>>]

\* bh.btManager.<op>(...): the handler invokes a manager operation.
Invoked(rq, op, adapterPath, macAddress) ==
    [rq EXCEPT !.ops = Append(@, [op |-> op, adapterPath |-> adapterPath,
                                  mac |-> macAddress])]

\* c.JSON(status, ...): the handler returns.
Respond(rq, status, calls, err, body) ==
    [rq EXCEPT !.pc = "done", !.status = status, !.calls = rq.calls \o calls,
               !.err = err, !.body = body]

\* middleware.Recover: the panic of a handler is recovered, and the request
\* is answered 500.
Recovered(rq, got) == Respond(rq, 500, got.calls, got.err, <<>>)

\* Mutant: only the adapter MAC parameter is checked.
CheckParams_AdapterOnly(kind, adapterMAC, macAddress) ==
    IF adapterMAC = <<>> THEN 400 ELSE 0

\* The parameter checks at the head of a handler: the status they answer,
\* 0 when they pass.
CheckParams(kind, adapterMAC, macAddress) ==
    IF adapterMAC = <<>> THEN 400
    ELSE IF kind \in Commands /\ macAddress = <<>> THEN 400
    ELSE 0

\* Mutant: the handler goes on to the manager call whatever the resolution
\* returned.
AfterResolve_IgnoresError(rq, got) ==
    [rq EXCEPT !.pc = "call", !.path = got.val, !.calls = rq.calls \o got.calls]

\* "adapterPath, err := bh.btManager.GetAdapterPathByMAC(adapterMAC)" and
\* the "if err != nil" after it.
AfterResolve(rq, got) ==
    IF got.err = Panic THEN Recovered(rq, got)
    ELSE IF got.err # Nil THEN Respond(rq, 404, got.calls, got.err, <<>>)
    ELSE [rq EXCEPT !.pc = "call", !.path = got.val, !.calls = rq.calls \o got.calls]

\* Mutant: the error of the manager call is dropped.
AfterCall_AlwaysOK(rq, got, body) == Respond(rq, 200, got.calls, Nil, body)

\* Mutant: a failed manager call is answered as a failed resolution is.
AfterCall_Answers404(rq, got, body) ==
    IF got.err # Nil THEN Respond(rq, 404, got.calls, got.err, <<>>)
    ELSE Respond(rq, 200, got.calls, Nil, body)

\* The "if err != nil" after the manager call, and the answer.
AfterCall(rq, got, body) ==
    IF got.err = Panic THEN Recovered(rq, got)
    ELSE IF got.err # Nil THEN Respond(rq, 500, got.calls, got.err, <<>>)
    ELSE Respond(rq, 200, got.calls, Nil, body)

\* A request for a handler with parameters arrives and passes, or fails,
\* the handler's parameter checks.
Entered(kind, adapterMAC, macAddress) ==
    LET rq == [Idle EXCEPT !.kind = kind, !.adapter = adapterMAC, !.mac = macAddress]
    IN  IF CheckParams(kind, adapterMAC, macAddress) # 0
        THEN Respond(rq, CheckParams(kind, adapterMAC, macAddress), <<>>, Nil, <<>>)
        ELSE [rq EXCEPT !.pc = "resolve"]

Begin(r, kind, adapterMAC, macAddress) ==
    /\ req[r].pc \in {"idle", "done"}
    /\ req' = [req EXCEPT ![r] = Entered(kind, adapterMAC, macAddress)]
    /\ UNCHANGED <<tree, mgr, conn, store, web, cfg>>

\* Mutant: a request resolves only while no other request is between its
\* resolution and its manager call.
Resolve_Locked(r) ==
    /\ req[r].pc = "resolve"
    /\ \A o \in DOMAIN req : req[o].pc # "call"
    /\ \E f \in FetchOutcomes, ord \in RangeOrders(tree, AdapterInterface) :
          req' = [req EXCEPT ![r] =
                     AfterResolve(Invoked(req[r], "GetAdapterPathByMAC", <<>>, req[r].adapter),
                                  GetAdapterPathByMAC(tree, req[r].adapter, f, ord))]
    /\ UNCHANGED <<tree, mgr, conn, store, web, cfg>>

Resolve(r) ==
    /\ req[r].pc = "resolve"
    /\ \E f \in FetchOutcomes, ord \in RangeOrders(tree, AdapterInterface) :
          req' = [req EXCEPT ![r] =
                     AfterResolve(Invoked(req[r], "GetAdapterPathByMAC", <<>>, req[r].adapter),
                                  GetAdapterPathByMAC(tree, req[r].adapter, f, ord))]
    /\ UNCHANGED <<tree, mgr, conn, store, web, cfg>>

RunQuery(r) ==
    /\ req[r].pc = "call"
    /\ req[r].kind \in Queries
    /\ \E f \in FetchOutcomes, ord \in RangeOrders(tree, DeviceInterface) :
          LET got == ManagerQuery(req[r].kind, tree, req[r].path, f, ord)
          IN  req' = [req EXCEPT ![r] =
                         AfterCall(Invoked(req[r], req[r].kind, req[r].path, <<>>),
                                   got, got.val)]
    /\ UNCHANGED <<tree, mgr, conn, store, web, cfg>>

RunCommand(r) ==
    /\ req[r].pc = "call"
    /\ req[r].kind \in Commands
    /\ \E ok \in BOOLEAN :
          LET got == ManagerCommand(req[r].kind, tree, req[r].path, req[r].mac, ok)
          IN  /\ req' = [req EXCEPT ![r] =
                            AfterCall(Invoked(req[r], req[r].kind, req[r].path, req[r].mac),
                                      got, <<>>)]
              /\ tree' = got.tree
    /\ UNCHANGED <<mgr, conn, store, web, cfg>>

\* The GetAdapters handler: it takes no parameter and makes one manager call.
HandleGetAdapters(r) ==
    /\ req[r].pc \in {"idle", "done"}
    /\ \E f \in FetchOutcomes, ord \in RangeOrders(tree, AdapterInterface) :
          LET got == GetAdapters(tree, f, ord)
          IN  req' = [req EXCEPT ![r] =
                         AfterCall(Invoked([Idle EXCEPT !.kind = "GetAdapters"],
                                           "GetAdapters", <<>>, <<>>), got, got.val)]
    /\ UNCHANGED <<tree, mgr, conn, store, web, cfg>>

\* The service's tree changes: adapters and devices come, go and change.
TreeChange ==
    /\ \E p \in TreePaths :
          \/ /\ p \in DOMAIN tree
             /\ tree' = [q \in DOMAIN tree \ {p} |-> tree[q]]
          \/ \E o \in ObjectChoices(p) :
                /\ p \in DOMAIN tree => tree[p] # o
                /\ tree' = [q \in DOMAIN tree \cup {p} |-> IF q = p THEN o ELSE tree[q]]
    /\ UNCHANGED <<req, mgr, conn, store, web, cfg>>

----------------------------------------------------------------------------
(* Calls made directly on the BluetoothManager (as main does at startup,   *)
(* and as the handlers do): mgr holds the method and its arguments and,    *)
(* once it returned, the remote calls it made, its error and its value: a  *)
(* sequence of records (val) or a path (path).                             *)

NoCall == [op |-> "", adapterPath |-> <<>>, mac |-> <<>>, pc |-> "idle",
           calls |-> <<>>, err |-> Nil, val |-> <<>>, path |-> <<>>]

Returned(op, adapterPath, mac, got) ==
    [op |-> op, adapterPath |-> adapterPath, mac |-> mac, pc |-> "done",
     calls |-> got.calls, err |-> got.err,
     val |-> IF op = "GetAdapterPathByMAC" THEN <<>> ELSE got.val,
     path |-> IF op = "GetAdapterPathByMAC" THEN got.val ELSE <<>>]

\* The adapterPath and macAddress arguments of the queries.
QueryPaths == {<<>>, <<"/", "h">>, H1, H10}
QueryMacs == {<<>>, MacAA, MacBB, MacCC, <<"A", ":", "a">>}

MgrGetAdapters ==
    /\ \E f \in FetchOutcomes, ord \in RangeOrders(tree, AdapterInterface) :
          mgr' = Returned("GetAdapters", <<>>, <<>>, GetAdapters(tree, f, ord))
    /\ UNCHANGED <<tree, req, conn, store, web, cfg>>

MgrGetDevices(adapterPath) ==
    /\ \E f \in FetchOutcomes, ord \in RangeOrders(tree, DeviceInterface) :
          mgr' = Returned("GetDevices", adapterPath, <<>>,
                          GetDevices(tree, adapterPath, f, ord))
    /\ UNCHANGED <<tree, req, conn, store, web, cfg>>

MgrGetTrustedDevices(adapterPath) ==
    /\ \E f \in FetchOutcomes, ord \in RangeOrders(tree, DeviceInterface) :
          mgr' = Returned("GetTrustedDevices", adapterPath, <<>>,
                          GetTrustedDevices(tree, adapterPath, f, ord))
    /\ UNCHANGED <<tree, req, conn, store, web, cfg>>

MgrGetConnectedDevices(adapterPath) ==
    /\ \E f \in FetchOutcomes, ord \in RangeOrders(tree, DeviceInterface) :
          mgr' = Returned("GetConnectedDevices", adapterPath, <<>>,
                          GetConnectedDevices(tree, adapterPath, f, ord))
    /\ UNCHANGED <<tree, req, conn, store, web, cfg>>

MgrGetAdapterPathByMAC(macAddress) ==
    /\ \E f \in FetchOutcomes, ord \in RangeOrders(tree, AdapterInterface) :
          mgr' = Returned("GetAdapterPathByMAC", <<>>, macAddress,
                          GetAdapterPathByMAC(tree, macAddress, f, ord))
    /\ UNCHANGED <<tree, req, conn, store, web, cfg>>

\* The arguments of the commands: the adapter paths, one of them the path
\* of a device, and every MAC string within the bound.
CommandPaths == {H1, H10, H1 \o DevMarker \o <<"a">>}

\* The trees the commands are issued against: the adapter at H1 with and
\* without the device at D1a.
CommandTrees == {t \in Trees : H1 \in DOMAIN t /\ DOMAIN t \subseteq {H1, D1a}}

\* A command called with the arguments mgr holds.
MgrCommand(op) ==
    /\ mgr.pc = "call"
    /\ mgr.op = op
    /\ \E ok \in BOOLEAN :
          LET got == ManagerCommand(op, tree, mgr.adapterPath, mgr.mac, ok)
          IN  /\ mgr' = [mgr EXCEPT !.pc = "done", !.calls = got.calls,
                                    !.err = got.err]
              /\ tree' = got.tree
    /\ UNCHANGED <<req, conn, store, web, cfg>>

\* A property bag with only the properties named in S.
Restrict(bag, S) == [n \in S \cap DOMAIN bag |-> bag[n]]

\* An object that exposes the device interface below the device at D1a.
Nested == D1a \o <<"/", "d", "e", "v", "_", "b">>

\* The trees the extraction is run on: the adapter at H1 with any subset of
\* its properties; or that adapter with all of them and the device at D1a
\* with any subset of its properties, with or without the object at Nested.
ExtractTrees ==
    LET adapter == AdapterProps(MacAA)
        device == DeviceProps(MacAA, TRUE, TRUE)
        nested == DeviceObject(DeviceProps(MacBB, FALSE, FALSE))
    IN  {(H1 :> AdapterObject(Restrict(adapter, S))) : S \in SUBSET DOMAIN adapter}
        \cup {(H1 :> AdapterObject(adapter)) @@ (D1a :> DeviceObject(Restrict(device, S))) :
                    S \in SUBSET DOMAIN device}
        \cup {(H1 :> AdapterObject(adapter)) @@ (D1a :> DeviceObject(Restrict(device, S)))
                    @@ (Nested :> nested) : S \in SUBSET DOMAIN device}

ExtractPaths == {H1, D1a}

----------------------------------------------------------------------------
(* The bus connection, the token store and the requests at the gate, as    *)
(* they are once main has set the server up.                               *)

\* bm.conn after NewBluetoothManager: set, and released by no Close yet.
Connected == [set |-> TRUE, releases |-> 0]

\* user_tokens without a row, and a row of it.
NoTokens == {}
Row(username, token) == [username |-> username, token |-> token]

\* A request to the API: its route, its Authorization header (auth: there
\* is one and it parses as Basic credentials), its JSON body or username
\* parameter (bind: the body binds), its adapter and device MAC parameters;
\* then the statements the gate and the handler ran on the database, and
\* the answer: status, WWW-Authenticate header, message and rows.
NoRequest == [route |-> "", auth |-> FALSE, user |-> "", pass |-> "", bind |-> TRUE,
              name |-> "", token |-> "", adapter |-> <<>>, mac |-> <<>>, pc |-> "idle",
              status |-> 0, header |-> FALSE, msg |-> "", gate |-> <<>>, stmts |-> <<>>,
              rows |-> {}]

\* The most Close calls made in a run.
MaxCloses == 2

\* BluetoothManager.Close: "if bm.conn != nil { bm.conn.Close() }".
Close(c) == IF c.set THEN [c EXCEPT !.releases = @ + 1] ELSE c

----------------------------------------------------------------------------
(* The database: the statements the gate and the token handlers run on the *)
(* user_tokens table.  dbOk: the database carries the statement out.       *)

\* SELECT token FROM user_tokens WHERE username = ?, scanned.
SelectToken(st, username, dbOk) ==
    LET found == {x \in st : x.username = username}
    IN  IF ~dbOk THEN [err |-> "error", token |-> ""]
        ELSE IF found # {} THEN [err |-> "", token |-> (CHOOSE x \in found : TRUE).token]
        ELSE [err |-> "ErrNoRows", token |-> ""]

\* Mutant: the table without its primary key.
InsertToken_NoPrimaryKey(st, username, token, dbOk) ==
    IF ~dbOk THEN [err |-> "error", store |-> st]
    ELSE [err |-> "", store |-> st \cup {Row(username, token)}]

\* INSERT INTO user_tokens (username, token, created_at): username is the
\* primary key, so a second row for it is refused.
InsertToken(st, username, token, dbOk) ==
    IF ~dbOk \/ (\E x \in st : x.username = username) THEN [err |-> "error", store |-> st]
    ELSE [err |-> "", store |-> st \cup {Row(username, token)}]

\* DELETE FROM user_tokens WHERE username = ?, with the rows affected.
DeleteRows(st, username, dbOk) ==
    LET found == {x \in st : x.username = username}
    IN  IF ~dbOk THEN [err |-> "error", rows |-> 0, store |-> st]
        ELSE [err |-> "", rows |-> Cardinality(found), store |-> st \ found]

----------------------------------------------------------------------------
(* The authentication gate and the token handlers.                         *)

\* c.JSON(status, {"error" or "message": msg}).
Answer(w, status, msg) == [w EXCEPT !.pc = "done", !.status = status, !.msg = msg]

\* The same, after the WWW-Authenticate header is set.
Challenge(w, msg) == [Answer(w, 401, msg) EXCEPT !.header = TRUE]

\* Mutant: the password is not compared with the stored token.
AuthMiddleware_AnyPassword(w, st, dbOk) ==
    IF ~w.auth \/ w.user = "" \/ w.pass = ""
    THEN Challenge(w, "missing or invalid basic auth")
    ELSE LET row == SelectToken(st, w.user, dbOk)
             asked == [w EXCEPT !.gate = <<"SELECT token">>]
         IN  IF row.err = "ErrNoRows" THEN Challenge(asked, "invalid credentials")
             ELSE IF row.err # "" THEN Answer(asked, 500, "database error")
             ELSE [asked EXCEPT !.pc = "next"]

\* Mutant: a username without a row is let through.
AuthMiddleware_OpenWithoutRow(w, st, dbOk) ==
    IF ~w.auth \/ w.user = "" \/ w.pass = ""
    THEN Challenge(w, "missing or invalid basic auth")
    ELSE LET row == SelectToken(st, w.user, dbOk)
             asked == [w EXCEPT !.gate = <<"SELECT token">>]
         IN  IF row.err = "ErrNoRows" THEN [asked EXCEPT !.pc = "next"]
             ELSE IF row.err # "" THEN Answer(asked, 500, "database error")
             ELSE IF w.pass # row.token THEN Challenge(asked, "invalid credentials")
             ELSE [asked EXCEPT !.pc = "next"]

\* Mutant: a username without a row gets a message of its own.
AuthMiddleware_TellsUnknownUser(w, st, dbOk) ==
    IF ~w.auth \/ w.user = "" \/ w.pass = ""
    THEN Challenge(w, "missing or invalid basic auth")
    ELSE LET row == SelectToken(st, w.user, dbOk)
             asked == [w EXCEPT !.gate = <<"SELECT token">>]
         IN  IF row.err = "ErrNoRows" THEN Challenge(asked, "unknown user")
             ELSE IF row.err # "" THEN Answer(asked, 500, "database error")
             ELSE IF w.pass # row.token THEN Challenge(asked, "invalid credentials")
             ELSE [asked EXCEPT !.pc = "next"]

\* AuthMiddleware: the request as the gate leaves it, answered or handed to
\* the handler (pc = "next").
AuthMiddleware(w, st, dbOk) ==
    IF ~w.auth \/ w.user = "" \/ w.pass = ""
    THEN Challenge(w, "missing or invalid basic auth")
    ELSE LET row == SelectToken(st, w.user, dbOk)
             asked == [w EXCEPT !.gate = <<"SELECT token">>]
         IN  IF row.err = "ErrNoRows" THEN Challenge(asked, "invalid credentials")
             ELSE IF row.err # "" THEN Answer(asked, 500, "database error")
             ELSE IF w.pass # row.token THEN Challenge(asked, "invalid credentials")
             ELSE [asked EXCEPT !.pc = "next"]

\* CreateToken up to its first statement: c.Bind and the empty-field check.
CreateTokenEnter(w) ==
    IF ~w.bind THEN Answer(w, 400, "invalid request body")
    ELSE IF w.name = "" \/ w.token = "" THEN Answer(w, 400, "username and token are required")
    ELSE [w EXCEPT !.pc = "check"]

\* Mutant: the row found by the existence check is not looked at.
AfterExistenceCheck_IgnoresRow(w, row) ==
    LET asked == [w EXCEPT !.stmts = Append(@, "SELECT token")]
    IN  IF row.err \notin {"", "ErrNoRows"} THEN Answer(asked, 500, "database error")
        ELSE [asked EXCEPT !.pc = "insert"]

\* CreateToken after "SELECT token ... WHERE username = ?".
AfterExistenceCheck(w, row) ==
    LET asked == [w EXCEPT !.stmts = Append(@, "SELECT token")]
    IN  IF row.err = "" THEN Answer(asked, 409, "username already exists")
        ELSE IF row.err # "ErrNoRows" THEN Answer(asked, 500, "database error")
        ELSE [asked EXCEPT !.pc = "insert"]

\* CreateToken after "INSERT INTO user_tokens ...".
AfterInsert(w, res) ==
    LET asked == [w EXCEPT !.stmts = Append(@, "INSERT")]
    IN  IF res.err # "" THEN Answer(asked, 500, "failed to create token")
        ELSE Answer(asked, 201, "token created successfully")

\* GetTokens: every row, or 500 when the query fails.
GetTokens(w, st, dbOk) ==
    LET asked == [w EXCEPT !.stmts = Append(@, "SELECT all")]
    IN  IF ~dbOk THEN Answer(asked, 500, "database error")
        ELSE [Answer(asked, 200, "") EXCEPT
                 !.rows = st]

\* GetToken: the row of the username parameter.
GetToken(w, st, dbOk) ==
    LET row == SelectToken(st, w.name, dbOk)
        asked == [w EXCEPT !.stmts = Append(@, "SELECT row")]
    IN  IF w.name = "" THEN Answer(w, 400, "username parameter is required")
        ELSE IF row.err = "ErrNoRows" THEN Answer(asked, 404, "token not found")
        ELSE IF row.err # "" THEN Answer(asked, 500, "database error")
        ELSE [Answer(asked, 200, "") EXCEPT
                 !.rows = {[username |-> w.name, token |-> row.token]}]

\* Mutant: the count of the affected rows is not compared with zero.
DeleteToken_IgnoresRowCount(w, st, dbOk, rowsOk) ==
    LET res == DeleteRows(st, w.name, dbOk)
        asked == [w EXCEPT !.stmts = Append(@, "DELETE")]
    IN  IF w.name = "" THEN [w |-> Answer(w, 400, "username parameter is required"),
                             store |-> st]
        ELSE IF res.err # "" THEN [w |-> Answer(asked, 500, "database error"), store |-> st]
        ELSE IF ~rowsOk THEN [w |-> Answer(asked, 500, "failed to check affected rows"),
                              store |-> res.store]
        ELSE [w |-> Answer(asked, 200, "token deleted successfully"), store |-> res.store]

\* DeleteToken: the request as answered, and the table after it.  rowsOk:
\* result.RowsAffected() returns no error.
DeleteToken(w, st, dbOk, rowsOk) ==
    LET res == DeleteRows(st, w.name, dbOk)
        asked == [w EXCEPT !.stmts = Append(@, "DELETE")]
    IN  IF w.name = "" THEN [w |-> Answer(w, 400, "username parameter is required"),
                             store |-> st]
        ELSE IF res.err # "" THEN [w |-> Answer(asked, 500, "database error"), store |-> st]
        ELSE IF ~rowsOk THEN [w |-> Answer(asked, 500, "failed to check affected rows"),
                              store |-> res.store]
        ELSE IF res.rows = 0 THEN [w |-> Answer(asked, 404, "token not found"),
                                   store |-> res.store]
        ELSE [w |-> Answer(asked, 200, "token deleted successfully"), store |-> res.store]

\* The two PATCH handlers of an adapter and the manager method each calls.
Patches == {"SetDiscoverable", "SetDiscovering"}

\* SetDiscoverable(adapterPath, enable), SetDiscovering(adapterPath, enable):
\* one call on the adapter object.
SetAdapterFlag(kind, t, adapterPath, enable, ok) ==
    Issue(t, BusCall(adapterPath, AdapterInterface, kind, <<VB(enable)>>),
          "failed to set adapter flag", <<>>, ok)

\* The requests of the server: usernames, tokens, credentials, and the
\* requests made of them.
ServerUsers == {"u1", "u2"}
ServerAdapterMacs == {<<>>, MacAA, MacCC}

Credentials ==
    {[auth |-> FALSE, user |-> "", pass |-> ""],
     [auth |-> TRUE, user |-> "u1", pass |-> ""],
     [auth |-> TRUE, user |-> "u1", pass |-> "t1"],
     [auth |-> TRUE, user |-> "u1", pass |-> "t2"],
     [auth |-> TRUE, user |-> "u2", pass |-> "t1"]}

TokenRoutes == {"CreateToken", "GetTokens", "GetToken", "DeleteToken"}

Requests ==
    LET plain ==
            {[NoRequest EXCEPT !.route = "CreateToken", !.name = n, !.token = t] :
                n \in ServerUsers \cup {""}, t \in {"", "t2"}}
            \cup {[NoRequest EXCEPT !.route = "CreateToken", !.bind = FALSE]}
            \cup {[NoRequest EXCEPT !.route = k] : k \in {"GetTokens", "GetAdapters"}}
            \cup {[NoRequest EXCEPT !.route = k, !.name = n] :
                    k \in {"GetToken", "DeleteToken"}, n \in ServerUsers \cup {""}}
            \cup {[NoRequest EXCEPT !.route = k, !.adapter = a] :
                    k \in Queries \cup Patches, a \in ServerAdapterMacs}
            \cup {[NoRequest EXCEPT !.route = k, !.adapter = a, !.mac = m] :
                    k \in Commands, a \in ServerAdapterMacs, m \in HttpDeviceMacs}
    IN  {[w EXCEPT !.auth = c.auth, !.user = c.user, !.pass = c.pass] :
            w \in plain, c \in Credentials}

\* The trees and the token tables the server starts on.
ServerTrees == {t \in CommandTrees : t[H1] = AdapterObject(AdapterProps(MacAA))}
ServerStores == {NoTokens, {Row("u1", "t1")}, {Row("u1", "t1"), Row("u2", "t2")}}

----------------------------------------------------------------------------
(* The server: a request goes through the gate of its route group, then    *)
(* through its handler; main's deferred Close ends the run.                *)

\* A request, one of requests, arrives and goes through AuthMiddleware.
ArriveFrom(r, requests) ==
    /\ web[r].pc = "idle"
    /\ conn.releases = 0
    /\ \E w \in requests, dbOk \in BOOLEAN :
          web' = [web EXCEPT ![r] = AuthMiddleware(w, store, dbOk)]
    /\ UNCHANGED <<tree, req, mgr, conn, store, cfg>>

Arrive(r) == ArriveFrom(r, Requests)

\* next(c) for a Bluetooth handler with parameters.
EnterBluetooth(r) ==
    /\ web[r].pc = "next"
    /\ web[r].route \in Queries \cup Commands \cup Patches
    /\ web' = [web EXCEPT ![r].pc = "handler"]
    /\ req' = [req EXCEPT ![r] = Entered(web[r].route, web[r].adapter, web[r].mac)]
    /\ UNCHANGED <<tree, mgr, conn, store, cfg>>

\* next(c) for the GetAdapters handler.
ServeGetAdapters(r) ==
    /\ web[r].pc = "next"
    /\ web[r].route = "GetAdapters"
    /\ web' = [web EXCEPT ![r].pc = "handler"]
    /\ \E f \in FetchOutcomes, ord \in RangeOrders(tree, AdapterInterface) :
          LET got == GetAdapters(tree, f, ord)
          IN  req' = [req EXCEPT ![r] =
                         AfterCall(Invoked([Idle EXCEPT !.kind = "GetAdapters"],
                                           "GetAdapters", <<>>, <<>>), got, got.val)]
    /\ UNCHANGED <<tree, mgr, conn, store, cfg>>

\* The manager call of a PATCH handler.
RunPatch(r) ==
    /\ req[r].pc = "call"
    /\ req[r].kind \in Patches
    /\ \E enable \in BOOLEAN, ok \in BOOLEAN :
          LET got == SetAdapterFlag(req[r].kind, tree, req[r].path, enable, ok)
          IN  /\ req' = [req EXCEPT ![r] =
                            AfterCall(Invoked(req[r], req[r].kind, req[r].path, <<>>),
                                      got, <<>>)]
              /\ tree' = got.tree
    /\ UNCHANGED <<mgr, conn, store, web, cfg>>

\* next(c) for CreateToken, up to its first statement.
ServeCreateToken(r) ==
    /\ web[r].pc = "next"
    /\ web[r].route = "CreateToken"
    /\ web' = [web EXCEPT ![r] = CreateTokenEnter(web[r])]
    /\ UNCHANGED <<tree, req, mgr, conn, store, cfg>>

\* CreateToken: the existence check.
CheckUsername(r) ==
    /\ web[r].pc = "check"
    /\ \E dbOk \in BOOLEAN :
          web' = [web EXCEPT ![r] =
                     AfterExistenceCheck(web[r], SelectToken(store, web[r].name, dbOk))]
    /\ UNCHANGED <<tree, req, mgr, conn, store, cfg>>

\* CreateToken: the insert.
InsertRow(r) ==
    /\ web[r].pc = "insert"
    /\ \E dbOk \in BOOLEAN :
          LET res == InsertToken(store, web[r].name, web[r].token, dbOk)
          IN  /\ web' = [web EXCEPT ![r] = AfterInsert(web[r], res)]
              /\ store' = res.store
    /\ UNCHANGED <<tree, req, mgr, conn, cfg>>

ServeGetTokens(r) ==
    /\ web[r].pc = "next"
    /\ web[r].route = "GetTokens"
    /\ \E dbOk \in BOOLEAN : web' = [web EXCEPT ![r] = GetTokens(web[r], store, dbOk)]
    /\ UNCHANGED <<tree, req, mgr, conn, store, cfg>>

ServeGetToken(r) ==
    /\ web[r].pc = "next"
    /\ web[r].route = "GetToken"
    /\ \E dbOk \in BOOLEAN : web' = [web EXCEPT ![r] = GetToken(web[r], store, dbOk)]
    /\ UNCHANGED <<tree, req, mgr, conn, store, cfg>>

ServeDeleteToken(r) ==
    /\ web[r].pc = "next"
    /\ web[r].route = "DeleteToken"
    /\ \E dbOk \in BOOLEAN, rowsOk \in BOOLEAN :
          LET got == DeleteToken(web[r], store, dbOk, rowsOk)
          IN  /\ web' = [web EXCEPT ![r] = got.w]
              /\ store' = got.store
    /\ UNCHANGED <<tree, req, mgr, conn, cfg>>

\* The response is written: the request is over.
Free(r) ==
    /\ \/ web[r].pc = "done"
       \/ web[r].pc = "handler" /\ req[r].pc = "done"
    /\ web' = [web EXCEPT ![r] = NoRequest]
    /\ req' = [req EXCEPT ![r] = Idle]
    /\ UNCHANGED <<tree, mgr, conn, store, cfg>>

\* BluetoothHandler.Close, as main defers it: "if bh.btManager != nil
\* { bh.btManager.Close() }", on the manager NewBluetoothHandler has set.
BluetoothHandlerClose ==
    /\ \A r \in Slots : web[r].pc = "idle"
    /\ conn.releases < MaxCloses
    /\ conn' = Close(conn)
    /\ UNCHANGED <<tree, req, mgr, store, web, cfg>>

\* BluetoothManager.Close called on the manager itself.
BluetoothManagerClose ==
    /\ \A r \in Slots : web[r].pc = "idle"
    /\ conn.releases < MaxCloses
    /\ conn' = Close(conn)
    /\ UNCHANGED <<tree, req, mgr, store, web, cfg>>

----------------------------------------------------------------------------
(* ConfigManager: the WirePlumber configuration file.  f is the file       *)
(* system at cm.configDir and cm.configFile; o tells, for each file-system *)
(* call, whether it succeeds; each operation returns the calls it made,    *)
(* its error and the file system after it.                                 *)

WirePlumberConfigContent == "wireplumber.profiles = { main = { monitor.bluez.seat-monitoring = disabled } }"

\* Other contents the file may have: none, the head of the expected
\* content, something else.
Truncated == ""
Partial == "wireplumber.profiles = {"
OtherContent == "other"

\* The file system: whether cm.configDir is there, whether cm.configFile
\* is, and its content.
NoFile(dir) == [dir |-> dir, exists |-> FALSE, content |-> ""]
FileWith(content) == [dir |-> TRUE, exists |-> TRUE, content |-> content]

ConfigStates ==
    {NoFile(FALSE), NoFile(TRUE)}
    \cup {FileWith(c) : c \in {WirePlumberConfigContent, Truncated, Partial, OtherContent}}

\* What the file-system calls of one operation do: os.Stat (ok, the file
\* does not exist, another error), os.MkdirAll, os.Create, WriteString
\* (all of the content written, some of it, none), os.ReadFile, os.Remove.
FsOutcomes(f) ==
    [stat : IF f.exists THEN {"ok", "error"} ELSE {"notExist", "error"},
     mkdir : BOOLEAN, create : BOOLEAN, write : {"all", "some", "none"},
     read : BOOLEAN, remove : BOOLEAN]

\* A file-system call as made, with what it returned.
FsCall(name, res) == [call |-> name, res |-> res]

ConfigResult(calls, err, f) == [calls |-> calls, err |-> err, fs |-> f]

\* writeConfigFile: os.Create truncates the file, WriteString fills it.
writeConfigFile(f, o) ==
    IF ~o.create
    THEN ConfigResult(<<FsCall("Create", "error")>>, "failed to create config file", f)
    ELSE IF o.write # "all"
    THEN ConfigResult(<<FsCall("Create", "ok"), FsCall("WriteString", o.write)>>,
                      "failed to write config content",
                      FileWith(IF o.write = "some" THEN Partial ELSE Truncated))
    ELSE ConfigResult(<<FsCall("Create", "ok"), FsCall("WriteString", "all")>>, "",
                      FileWith(WirePlumberConfigContent))

\* Mutant: the content is not compared with the expected content.
validateConfigContent_AnyContent(f, o) ==
    IF ~o.read
    THEN ConfigResult(<<FsCall("ReadFile", "error")>>, "failed to read config file", f)
    ELSE ConfigResult(<<FsCall("ReadFile", "ok")>>, "", f)

validateConfigContent(f, o) ==
    IF ~o.read
    THEN ConfigResult(<<FsCall("ReadFile", "error")>>, "failed to read config file", f)
    ELSE IF f.content # WirePlumberConfigContent
    THEN LET w == writeConfigFile(f, o)
         IN  ConfigResult(<<FsCall("ReadFile", "ok")>> \o w.calls, w.err, w.fs)
    ELSE ConfigResult(<<FsCall("ReadFile", "ok")>>, "", f)

EnsureConfig(f, o) ==
    LET stat == <<FsCall("Stat", o.stat)>>
    IN  IF o.stat = "ok"
        THEN LET v == validateConfigContent(f, o)
             IN  ConfigResult(stat \o v.calls, v.err, v.fs)
        ELSE IF ~o.mkdir
        THEN ConfigResult(stat \o <<FsCall("MkdirAll", "error")>>,
                          "failed to create config directory", f)
        ELSE LET w == writeConfigFile([f EXCEPT !.dir = TRUE], o)
                 calls == stat \o <<FsCall("MkdirAll", "ok")>> \o w.calls
             IN  IF w.err # "" THEN ConfigResult(calls, "failed to write config file", w.fs)
                 ELSE ConfigResult(calls, "", w.fs)

\* RemoveConfig: os.Remove succeeds only on a file that is there.
RemoveConfig(f, o) ==
    LET stat == <<FsCall("Stat", o.stat)>>
    IN  IF o.stat = "notExist" THEN ConfigResult(stat, "", f)
        ELSE IF ~(o.remove /\ f.exists)
        THEN ConfigResult(stat \o <<FsCall("Remove", "error")>>,
                          "failed to remove config file", f)
        ELSE ConfigResult(stat \o <<FsCall("Remove", "ok")>>, "", NoFile(TRUE))

\* No call made on the ConfigManager yet, on a file system without the
\* file; and the ConfigManager after a call.
NoConfigCall == [fs |-> NoFile(FALSE), op |-> "", err |-> "", calls |-> <<>>]
ConfigReturned(op, got) == [fs |-> got.fs, op |-> op, err |-> got.err, calls |-> got.calls]

CallEnsureConfig ==
    /\ \E o \in FsOutcomes(cfg.fs) : cfg' = ConfigReturned("EnsureConfig", EnsureConfig(cfg.fs, o))
    /\ UNCHANGED <<tree, req, mgr, conn, store, web>>

CallRemoveConfig ==
    /\ \E o \in FsOutcomes(cfg.fs) : cfg' = ConfigReturned("RemoveConfig", RemoveConfig(cfg.fs, o))
    /\ UNCHANGED <<tree, req, mgr, conn, store, web>>

----------------------------------------------------------------------------
(* main at startup: once the configuration is ensured and the handler is   *)
(* made, it lists the adapters; nothing recovers a panic there.            *)

\* BluetoothHandler.GetAdaptersRaw: the adapters of the manager, as records.
GetAdaptersRaw(t, f, ord) == GetAdapters(t, f, ord)

\* The trees main may start on: those of the server, and trees where a
\* property of the adapter or of the device has another type than the
\* type assertion names.
StartupTrees ==
    ServerTrees
    \cup {(H1 :> AdapterObject([AdapterProps(MacAA) EXCEPT !["Name"] = VB(TRUE)])),
          (H1 :> AdapterObject(AdapterProps(MacAA)))
             @@ (D1a :> DeviceObject([DeviceProps(MacAA, TRUE, TRUE)
                                         EXCEPT !["Trusted"] = VS(<<"y">>)]))}

\* "adapters, err := btHandler.GetAdaptersRaw()": an error is logged and
\* main goes on; a panic ends the process.
MainLogAdapters ==
    /\ mgr.pc = "idle"
    /\ cfg.op = "EnsureConfig"
    /\ \E f \in FetchOutcomes, ord \in RangeOrders(tree, AdapterInterface) :
          LET got == GetAdaptersRaw(tree, f, ord)
          IN  mgr' = [Returned("GetAdaptersRaw", <<>>, <<>>, got) EXCEPT
                         !.pc = IF got.err = Panic THEN "exited" ELSE "done"]
    /\ UNCHANGED <<tree, req, conn, store, web, cfg>>

----------------------------------------------------------------------------
(* The specifications.                                                     *)

\* Spec: HTTP requests served by the handlers while the tree changes.
Init ==
    /\ tree \in Trees
    /\ req = [r \in Slots |-> Idle]
    /\ mgr = NoCall
    /\ conn = Connected
    /\ store = NoTokens
    /\ web = [r \in Slots |-> NoRequest]
    /\ cfg = NoConfigCall

Next ==
    \/ \E r \in Slots, kind \in Queries, a \in HttpAdapterMacs : Begin(r, kind, a, <<>>)
    \/ \E r \in Slots, kind \in Commands, a \in HttpAdapterMacs, m \in HttpDeviceMacs :
          Begin(r, kind, a, m)
    \/ \E r \in Slots : Resolve(r)
    \/ \E r \in Slots : RunQuery(r)
    \/ \E r \in Slots : RunCommand(r)
    \/ \E r \in Slots : HandleGetAdapters(r)
    \/ TreeChange

Spec == Init /\ [][Next]_vars

\* SpecQuery: the manager's queries called directly, with any arguments,
\* while the tree changes.
NextQuery ==
    \/ MgrGetAdapters
    \/ \E p \in QueryPaths : MgrGetDevices(p)
    \/ \E p \in QueryPaths : MgrGetTrustedDevices(p)
    \/ \E p \in QueryPaths : MgrGetConnectedDevices(p)
    \/ \E m \in QueryMacs : MgrGetAdapterPathByMAC(m)
    \/ TreeChange

SpecQuery == Init /\ [][NextQuery]_vars

\* SpecCommand: one manager command called directly, its arguments drawn
\* from every adapter path and MAC string within the bounds.
InitCommand ==
    /\ tree \in CommandTrees
    /\ req = [r \in Slots |-> Idle]
    /\ \E op \in Commands, p \in CommandPaths, m \in MacArgs :
          mgr = [NoCall EXCEPT !.op = op, !.adapterPath = p, !.mac = m, !.pc = "call"]
    /\ conn = Connected
    /\ store = NoTokens
    /\ web = [r \in Slots |-> NoRequest]
    /\ cfg = NoConfigCall

NextCommand ==
    \/ MgrCommand("ConnectDevice")
    \/ MgrCommand("TrustDevice")
    \/ MgrCommand("RemoveDevice")
    \/ MgrCommand("PairDevice")

SpecCommand == InitCommand /\ [][NextCommand]_vars

\* SpecExtract: GetAdapters and GetDevices called directly on trees whose
\* objects have any subset of their properties.
InitExtract ==
    /\ tree \in ExtractTrees
    /\ req = [r \in Slots |-> Idle]
    /\ mgr = NoCall
    /\ conn = Connected
    /\ store = NoTokens
    /\ web = [r \in Slots |-> NoRequest]
    /\ cfg = NoConfigCall

NextExtract ==
    \/ MgrGetAdapters
    \/ \E p \in ExtractPaths : MgrGetDevices(p)

SpecExtract == InitExtract /\ [][NextExtract]_vars

\* SpecServer: the server as main sets it up: every route of the API behind
\* the gate of its group, the handlers, and the teardown.
InitServer ==
    /\ tree \in ServerTrees
    /\ req = [r \in Slots |-> Idle]
    /\ mgr = NoCall
    /\ conn = Connected
    /\ store \in ServerStores
    /\ web = [r \in Slots |-> NoRequest]
    /\ cfg = NoConfigCall

NextServer ==
    \/ \E r \in Slots : Arrive(r)
    \/ \E r \in Slots : EnterBluetooth(r)
    \/ \E r \in Slots : ServeGetAdapters(r)
    \/ \E r \in Slots : Resolve(r)
    \/ \E r \in Slots : RunQuery(r)
    \/ \E r \in Slots : RunCommand(r)
    \/ \E r \in Slots : RunPatch(r)
    \/ \E r \in Slots : ServeCreateToken(r)
    \/ \E r \in Slots : CheckUsername(r)
    \/ \E r \in Slots : InsertRow(r)
    \/ \E r \in Slots : ServeGetTokens(r)
    \/ \E r \in Slots : ServeGetToken(r)
    \/ \E r \in Slots : ServeDeleteToken(r)
    \/ \E r \in Slots : Free(r)
    \/ BluetoothHandlerClose
    \/ BluetoothManagerClose

SpecServer == InitServer /\ [][NextServer]_vars

\* SpecRace: two requests served at once, each a Pair or a Remove of the
\* device MacAA of the adapter MacAA; the steps of one interleave with the
\* steps of the other.
RaceSlots == {"r1", "r2"}

InitRace ==
    /\ tree \in ServerTrees
    /\ req = [r \in RaceSlots |-> Idle]
    /\ mgr = NoCall
    /\ conn = Connected
    /\ store = NoTokens
    /\ web = [r \in RaceSlots |-> NoRequest]
    /\ cfg = NoConfigCall

NextRace ==
    \/ \E r \in RaceSlots, kind \in {"PairDevice", "RemoveDevice"} :
          Begin(r, kind, MacAA, MacAA)
    \/ \E r \in RaceSlots : Resolve(r)
    \/ \E r \in RaceSlots : RunCommand(r)

SpecRace == InitRace /\ [][NextRace]_vars

\* SpecTokenRace: three requests served at once, each a CreateToken or a
\* DeleteToken for the username u2, made by u1 with its token.
TokenSlots == {"r1", "r2", "r3"}

RaceRequests ==
    {[w EXCEPT !.auth = TRUE, !.user = "u1", !.pass = "t1"] :
        w \in {[NoRequest EXCEPT !.route = "CreateToken", !.name = "u2", !.token = t] :
                  t \in {"t1", "t2"}}
              \cup {[NoRequest EXCEPT !.route = "DeleteToken", !.name = "u2"]}}

InitTokenRace ==
    /\ tree \in ServerTrees
    /\ req = [r \in TokenSlots |-> Idle]
    /\ mgr = NoCall
    /\ conn = Connected
    /\ store = {Row("u1", "t1")}
    /\ web = [r \in TokenSlots |-> NoRequest]
    /\ cfg = NoConfigCall

NextTokenRace ==
    \/ \E r \in TokenSlots : ArriveFrom(r, RaceRequests)
    \/ \E r \in TokenSlots : ServeCreateToken(r)
    \/ \E r \in TokenSlots : CheckUsername(r)
    \/ \E r \in TokenSlots : InsertRow(r)
    \/ \E r \in TokenSlots : ServeDeleteToken(r)

SpecTokenRace == InitTokenRace /\ [][NextTokenRace]_vars

\* SpecStartup: main from its start: the WirePlumber configuration is
\* ensured (EnsureConfig and RemoveConfig are called in any order, from any
\* state of the file), the adapters are listed, and the read requests are
\* served; a property of the tree may have another type than BlueZ
\* documents.
InitStartup ==
    /\ tree \in StartupTrees
    /\ req = [r \in Slots |-> Idle]
    /\ mgr = NoCall
    /\ conn = Connected
    /\ store = NoTokens
    /\ web = [r \in Slots |-> NoRequest]
    /\ \E f \in ConfigStates : cfg = [NoConfigCall EXCEPT !.fs = f]

NextStartup ==
    \/ mgr.pc = "idle" /\ CallEnsureConfig
    \/ mgr.pc = "idle" /\ CallRemoveConfig
    \/ MainLogAdapters
    \/ mgr.pc = "done" /\ \E r \in Slots, kind \in Queries : Begin(r, kind, MacAA, <<>>)
    \/ mgr.pc = "done" /\ \E r \in Slots : Resolve(r)
    \/ mgr.pc = "done" /\ \E r \in Slots : RunQuery(r)
    \/ mgr.pc = "done" /\ \E r \in Slots : HandleGetAdapters(r)

SpecStartup == InitStartup /\ [][NextStartup]_vars

----------------------------------------------------------------------------
(* Vocabulary of the properties.                                           *)

\* The Address an adapter object of the tree has: its property, or the
\* empty string an Adapter record keeps when the property is absent.
AddressIn(t, p) ==
    LET bag == t[p][AdapterInterface]
    IN  IF "Address" \in DOMAIN bag THEN bag["Address"].val ELSE <<>>

\* The paths of the adapters of t whose Address is mac.
AdaptersWith(t, mac) ==
    {p \in DOMAIN t : AdapterInterface \in DOMAIN t[p] /\ AddressIn(t, p) = mac}

\* The device objects of t under the prefix adapterPath + "/".
DevicesUnder(t, adapterPath) ==
    {p \in DOMAIN t : /\ DeviceInterface \in DOMAIN t[p]
                      /\ Len(p) > Len(adapterPath)
                      /\ SubSeq(p, 1, Len(adapterPath) + 1) = adapterPath \o <<"/">>}

\* The device identifier as the specification writes it: the adapter path,
\* "/dev_", and the MAC with every ':' replaced by '_'.
DeviceIdFor(adapterPath, mac) ==
    adapterPath \o <<"/", "d", "e", "v", "_">>
                \o [i \in 1..Len(mac) |-> IF mac[i] = ":" THEN "_" ELSE mac[i]]

IsFetch(call) ==
    /\ call.iface = ObjectManagerIface
    /\ call.member = "GetManagedObjects"
    /\ call.path = BluezObjectPath

IsFetchError(err) == err.wraps \in {"TransportError", "DecodeError"} /\ err.mac = <<>>
IsNotFound(err, mac) == err # Nil /\ err.wraps = "" /\ err.mac = mac

\* The remote calls a step added to request r.
NewCalls(r) == SubSeq(req'[r].calls, Len(req[r].calls) + 1, Len(req'[r].calls))

Has(s, c) == \E i \in 1..Len(s) : s[i] = c

\* The device identifier a returned command addressed.
Addressed(m) ==
    IF m.op = "RemoveDevice" THEN m.calls[1].args[1] ELSE m.calls[1].path

\* The part of an identifier after its last "/".
LastSegment(id) ==
    LET slashes == {i \in 1..Len(id) : id[i] = "/"}
        last == IF slashes = {} THEN 0
                ELSE CHOOSE i \in slashes : \A j \in slashes : j <= i
    IN  SubSeq(id, last + 1, Len(id))

\* The MAC read back from a device identifier: its last segment without the
\* "dev_" marker, every '_' replaced by ':'.
MacOf(id) ==
    LET seg == LastSegment(id)
        mac == SubSeq(seg, 5, Len(seg))
    IN  [i \in 1..Len(mac) |-> IF mac[i] = "_" THEN ":" ELSE mac[i]]

----------------------------------------------------------------------------
(* The properties.                                                         *)

\* C1: for Connect, Pair, Trust and Remove, a request whose adapter MAC (a
\* request that passed the parameter checks) matches no adapter of the tree
\* fetched at the resolution step ends at that step with 404, and the only
\* remote call it ever made is the bulk query: no Connect, Pair,
\* property-set or RemoveDevice call.
C1_NotFoundIssuesNoCommand ==
    [][\A r \in Slots :
          (/\ req[r].pc = "resolve"
           /\ req[r].kind \in Commands
           /\ req'[r] # req[r]
           /\ AdaptersWith(tree, req[r].adapter) = {})
          => /\ req'[r].pc = "done"
             /\ req'[r].status = 404
             /\ \A i \in 1..Len(req'[r].calls) : IsFetch(req'[r].calls[i])]_vars

C1_Witness ==
    \E r \in Slots :
        /\ req[r].kind = "ConnectDevice"
        /\ req[r].adapter = MacCC
        /\ req[r].pc = "done"
        /\ req[r].status = 404
        /\ IsNotFound(req[r].err, MacCC)
        /\ Len(req[r].calls) = 1
        /\ H1 \in DOMAIN tree

\* C2: a Trust request whose adapter MAC matches an adapter resolves to the
\* path P of such an adapter, then issues exactly one remote call: a
\* property-set on P + "/dev_" + (device MAC with ':' replaced by '_')
\* setting Trusted of the device interface to true; the request makes no
\* other command call (its only other call is the bulk query of the
\* resolution) and answers 200 when the property-set succeeds.
C2_TrustIssuesOnePropertySet ==
    [][\A r \in Slots :
          (req[r].kind = "TrustDevice" /\ req'[r] # req[r]) =>
            /\ (req[r].pc = "resolve" /\ req'[r].pc = "call")
               => req'[r].path \in AdaptersWith(tree, req[r].adapter)
            /\ (req[r].pc = "call")
               => /\ req'[r].pc = "done"
                  /\ Len(NewCalls(r)) = 1
                  /\ NewCalls(r)[1].path = DeviceIdFor(req[r].path, req[r].mac)
                  /\ NewCalls(r)[1].iface = PropertiesIface
                  /\ NewCalls(r)[1].member = "Set"
                  /\ NewCalls(r)[1].args = <<DeviceInterface, "Trusted", VB(TRUE)>>
                  /\ Len(req'[r].calls) = 2
                  /\ IsFetch(req'[r].calls[1])
                  /\ (NewCalls(r)[1].reply = "" => req'[r].status = 200)]_vars

C2_Witness ==
    \E r \in Slots :
        /\ req[r].kind = "TrustDevice"
        /\ req[r].adapter = MacAA
        /\ req[r].mac = MacAA
        /\ req[r].pc = "done"
        /\ req[r].status = 200
        /\ req[r].path = H1
        /\ Len(req[r].calls) = 2
        /\ req[r].calls[2].path = D1a
        /\ req[r].calls[2].reply = ""
        /\ D1a \in DOMAIN tree
        /\ tree[D1a][DeviceInterface]["Trusted"] = VB(TRUE)

\* C3: GetDevices(p), once the tree is fetched and decoded, returns only
\* devices whose identifier has p + "/" as a prefix and exactly one record
\* for each object of the tree that exposes the device interface under that
\* prefix, so the counts are equal; when no object matches p it returns the
\* empty sequence and no error.  Its only errors are those of the fetch.
C3_GetDevicesFiltersByPrefix ==
    [][(mgr' # mgr /\ mgr'.op = "GetDevices") =>
          LET p == mgr'.adapterPath
              got == mgr'.val
          IN  /\ mgr'.err # Nil => IsFetchError(mgr'.err)
              /\ mgr'.err = Nil =>
                    /\ \A i \in 1..Len(got) :
                          /\ Len(got[i].Path) > Len(p)
                          /\ SubSeq(got[i].Path, 1, Len(p) + 1) = p \o <<"/">>
                    /\ {got[i].Path : i \in 1..Len(got)} = DevicesUnder(tree, p)
                    /\ Len(got) = Cardinality(DevicesUnder(tree, p))
                    /\ DevicesUnder(tree, p) = {} => got = <<>>]_vars

C3_Witness ==
    /\ mgr.op = "GetDevices"
    /\ mgr.adapterPath = H1
    /\ mgr.err = Nil
    /\ Len(mgr.val) = 2
    /\ D10a \in DOMAIN tree
    /\ DevicesUnder(tree, H1) = {D1a, D1b}

\* C4: GetAdapterPathByMAC(mac), once the tree is fetched and decoded,
\* returns a not-found error naming mac when no adapter of the tree has
\* Address mac, and the path of the matching adapter, with no error, when
\* exactly one has.
C4_ResolveAdapterPath ==
    [][(mgr' # mgr /\ mgr'.op = "GetAdapterPathByMAC" /\ ~IsFetchError(mgr'.err)) =>
          LET matching == AdaptersWith(tree, mgr'.mac)
          IN  /\ matching = {} => IsNotFound(mgr'.err, mgr'.mac)
              /\ Cardinality(matching) = 1 =>
                    mgr'.err = Nil /\ mgr'.path \in matching]_vars

C4_Witness ==
    /\ mgr.op = "GetAdapterPathByMAC"
    /\ mgr.mac = MacBB
    /\ mgr.err = Nil
    /\ mgr.path = H10
    /\ AdaptersWith(tree, MacBB) = {H10}
    /\ H1 \in DOMAIN tree

\* C7: GetTrustedDevices(p) returns, for a sequence D that GetDevices(p)
\* returns on the same tree, the subsequence of D made of exactly its
\* elements with Trusted = true, in D's order: every element returned is
\* trusted, the elements left out are the untrusted ones, and the trusted
\* count plus the untrusted count is Len(D).
C7_TrustedIsSubsequence ==
    [][(mgr' # mgr /\ mgr'.op = "GetTrustedDevices" /\ mgr'.err = Nil) =>
          \E ord \in RangeOrders(tree, DeviceInterface) :
             LET D == GetDevices(tree, mgr'.adapterPath, "ok", ord).val
                 T == mgr'.val
                 kept == {j \in 1..Len(D) : D[j].Trusted}
                 left == {j \in 1..Len(D) : ~D[j].Trusted}
             IN  /\ \A i \in 1..Len(T) : T[i].Trusted
                 /\ \E at \in [1..Len(T) -> 1..Len(D)] :
                       /\ \A i, j \in 1..Len(T) : i < j => at[i] < at[j]
                       /\ \A i \in 1..Len(T) : T[i] = D[at[i]]
                       /\ {at[i] : i \in 1..Len(T)} = kept
                 /\ Len(T) + Cardinality(left) = Len(D)]_vars

C7_Witness ==
    /\ mgr.op = "GetTrustedDevices"
    /\ mgr.adapterPath = H1
    /\ mgr.err = Nil
    /\ Len(mgr.val) = 1
    /\ mgr.val[1].Path = D1b
    /\ D1a \in DOMAIN tree
    /\ tree[D1a][DeviceInterface]["Trusted"] = VB(FALSE)
    /\ D1b \in DOMAIN tree

\* C8: whatever step of a request raises the error, a request answers 404
\* only for a not-found error (no adapter has the MAC), and answers 500 for
\* a transport error, a decode error or a failed command.
C8_StatusFollowsErrorKind ==
    \A r \in Slots :
        req[r].pc = "done" =>
            /\ req[r].status = 404 => IsNotFound(req[r].err, req[r].adapter)
            /\ req[r].err.wraps \in {"TransportError", "DecodeError"}
               => req[r].status = 500

\* C5 as claimed: the device identifier is injective: the identifier a
\* command addressed for (adapterPath, mac) is the identifier of no other
\* pair; in particular of no other MAC string under the same adapterPath.
C5_Injective ==
    mgr.pc = "done" =>
        \A p \in CommandPaths, m \in MacArgs :
            <<p, m>> # <<mgr.adapterPath, mgr.mac>> => DevicePath(p, m) # Addressed(mgr)

\* C5 as amended: under the same adapterPath, two distinct MAC strings that
\* contain no '_' yield distinct identifiers; and distinct (adapterPath,
\* mac) pairs whose MAC strings contain neither '_' nor '/' yield distinct
\* identifiers.
C5_InjectiveOnPlainMacs ==
    mgr.pc = "done" =>
        /\ Addressed(mgr) = DevicePath(mgr.adapterPath, mgr.mac)
        /\ \A m \in MacArgs :
              (m # mgr.mac /\ ~Has(m, "_") /\ ~Has(mgr.mac, "_"))
              => DevicePath(mgr.adapterPath, m) # Addressed(mgr)
        /\ \A p \in CommandPaths, m \in MacArgs :
              (/\ <<p, m>> # <<mgr.adapterPath, mgr.mac>>
               /\ ~Has(m, "_") /\ ~Has(m, "/")
               /\ ~Has(mgr.mac, "_") /\ ~Has(mgr.mac, "/"))
              => DevicePath(p, m) # Addressed(mgr)

C5_Witness ==
    /\ mgr.pc = "done"
    /\ mgr.op = "ConnectDevice"
    /\ mgr.adapterPath = H1
    /\ mgr.mac = <<"a", ":", "a">>
    /\ Addressed(mgr) = D1a
    /\ <<":", "a", "a">> \in MacArgs

\* C6 as claimed: for any MAC string containing colons, the last segment of
\* the identifier a command addressed, less the "dev_" marker and with
\* every '_' replaced by ':', is the MAC string.
C6_RoundTrip ==
    (mgr.pc = "done" /\ Has(mgr.mac, ":")) => MacOf(Addressed(mgr)) = mgr.mac

\* C6 as amended: the same, for any MAC string that contains colons and
\* neither '_' nor '/'.
C6_RoundTripOnPlainMacs ==
    (mgr.pc = "done" /\ Has(mgr.mac, ":") /\ ~Has(mgr.mac, "_") /\ ~Has(mgr.mac, "/"))
    => MacOf(Addressed(mgr)) = mgr.mac

C6_Witness ==
    /\ mgr.pc = "done"
    /\ mgr.op = "TrustDevice"
    /\ mgr.mac = <<"a", ":", "a">>
    /\ mgr.adapterPath = H1
    /\ LastSegment(Addressed(mgr)) = <<"d", "e", "v", "_", "a", "_", "a">>
    /\ MacOf(Addressed(mgr)) = mgr.mac

\* C9: ConnectDevice, PairDevice, TrustDevice and RemoveDevice each make
\* exactly one remote call, whether it succeeds or fails; a failed call is
\* not made again, and the error returned wraps the call's error and names
\* the device MAC; a call that succeeds returns no error.
C9_OneCallNoRetry ==
    mgr.pc = "done" =>
        /\ Len(mgr.calls) = 1
        /\ mgr.calls[1].reply # "" =>
              /\ mgr.err # Nil
              /\ mgr.err.wraps = mgr.calls[1].reply
              /\ mgr.err.mac = mgr.mac
        /\ mgr.calls[1].reply = "" => mgr.err = Nil

C9_Witness ==
    /\ mgr.pc = "done"
    /\ mgr.op = "PairDevice"
    /\ mgr.adapterPath = H1
    /\ mgr.mac = <<"a", ":", "a">>
    /\ D1a \in DOMAIN tree
    /\ Len(mgr.calls) = 1
    /\ mgr.calls[1].reply = "TransportError"
    /\ mgr.err.mac = mgr.mac

\* C10: RemoveDevice(adapterPath, mac) addresses its one call, RemoveDevice
\* of the adapter interface, to adapterPath with the device identifier as
\* its argument; Connect, Pair and Trust address theirs to the device
\* identifier itself.
C10_RemoveAddressesAdapter ==
    mgr.pc = "done" =>
        LET call == mgr.calls[1]
            id == DeviceIdFor(mgr.adapterPath, mgr.mac)
        IN  IF mgr.op = "RemoveDevice"
            THEN /\ call.path = mgr.adapterPath
                 /\ call.iface = AdapterInterface
                 /\ call.member = "RemoveDevice"
                 /\ call.args = <<id>>
            ELSE /\ call.path = id
                 /\ call.member = CASE mgr.op = "ConnectDevice" -> "Connect"
                                    [] mgr.op = "PairDevice" -> "Pair"
                                    [] OTHER -> "Set"

C10_Witness ==
    /\ mgr.pc = "done"
    /\ mgr.op = "RemoveDevice"
    /\ mgr.adapterPath = H1
    /\ mgr.mac = <<"a", ":", "a">>
    /\ mgr.calls[1].path = H1
    /\ mgr.calls[1].args = <<D1a>>
    /\ mgr.calls[1].reply = ""
    /\ D1a \notin DOMAIN tree

\* Whether path is p + "/" followed by one segment without a further "/".
IsDirectChild(path, p) ==
    /\ Len(path) > Len(p) + 1
    /\ SubSeq(path, 1, Len(p) + 1) = p \o <<"/">>
    /\ \A i \in (Len(p) + 2)..Len(path) : path[i] # "/"

\* The value of property n of the object of t at path, zero when absent.
Prop(t, path, iface, n, zero) ==
    IF n \in DOMAIN t[path][iface] THEN t[path][iface][n].val ELSE zero

\* C11: every Device record GetDevices(p) returns has Adapter p and an
\* identifier that is a direct child of p: p + "/" and one path segment.
C11_DevicesAreDirectChildren ==
    (mgr.pc = "done" /\ mgr.op = "GetDevices" /\ mgr.err = Nil) =>
        \A i \in 1..Len(mgr.val) :
            /\ mgr.val[i].Adapter = mgr.adapterPath
            /\ IsDirectChild(mgr.val[i].Path, mgr.adapterPath)

\* C18: GetAdapters (GetDevices) returns one record for every object that
\* exposes the adapter interface (the device interface, under the prefix),
\* whichever of its properties are absent; each field holds the property's
\* value, or its zero value when the property is absent; and an absent
\* property never makes the call fail.
C18_AbsentPropertiesKeepZero ==
    mgr.pc = "done" =>
        /\ mgr.err # Nil => IsFetchError(mgr.err)
        /\ (mgr.err = Nil /\ mgr.op = "GetAdapters") =>
              /\ Len(mgr.val) = Cardinality({p \in DOMAIN tree : AdapterInterface \in DOMAIN tree[p]})
              /\ \A p \in DOMAIN tree : AdapterInterface \in DOMAIN tree[p] =>
                    \E i \in 1..Len(mgr.val) :
                        /\ mgr.val[i].Path = p
                        /\ mgr.val[i].Name = Prop(tree, p, AdapterInterface, "Name", <<>>)
                        /\ mgr.val[i].Address = Prop(tree, p, AdapterInterface, "Address", <<>>)
                        /\ mgr.val[i].Powered = Prop(tree, p, AdapterInterface, "Powered", FALSE)
                        /\ mgr.val[i].Discoverable
                              = Prop(tree, p, AdapterInterface, "Discoverable", FALSE)
                        /\ mgr.val[i].Discovering
                              = Prop(tree, p, AdapterInterface, "Discovering", FALSE)
        /\ (mgr.err = Nil /\ mgr.op = "GetDevices") =>
              /\ Len(mgr.val) = Cardinality(DevicesUnder(tree, mgr.adapterPath))
              /\ \A p \in DevicesUnder(tree, mgr.adapterPath) :
                    \E i \in 1..Len(mgr.val) :
                        /\ mgr.val[i].Path = p
                        /\ mgr.val[i].Name = Prop(tree, p, DeviceInterface, "Name", <<>>)
                        /\ mgr.val[i].Address = Prop(tree, p, DeviceInterface, "Address", <<>>)
                        /\ mgr.val[i].Paired = Prop(tree, p, DeviceInterface, "Paired", FALSE)
                        /\ mgr.val[i].Trusted = Prop(tree, p, DeviceInterface, "Trusted", FALSE)
                        /\ mgr.val[i].Connected
                              = Prop(tree, p, DeviceInterface, "Connected", FALSE)

C18_Witness ==
    /\ mgr.pc = "done"
    /\ mgr.op = "GetAdapters"
    /\ mgr.err = Nil
    /\ DOMAIN tree[H1][AdapterInterface] = {"Name", "Powered"}
    /\ Len(mgr.val) = 1
    /\ mgr.val[1].Path = H1
    /\ mgr.val[1].Address = <<>>
    /\ mgr.val[1].Powered
    /\ ~mgr.val[1].Discovering

\* C12: a request to a handler with parameters whose adapter MAC is empty,
\* and a request to a command handler whose device MAC is empty, is
\* answered 400 at once: no manager operation is invoked for it, neither the
\* adapter resolution nor a query or command, and no remote call is made.
C12_EmptyParameterIs400 ==
    \A r \in Slots :
        (/\ req[r].pc # "idle"
         /\ req[r].kind \in Queries \cup Commands
         /\ \/ req[r].adapter = <<>>
            \/ req[r].kind \in Commands /\ req[r].mac = <<>>)
        => /\ req[r].pc = "done"
           /\ req[r].status = 400
           /\ req[r].ops = <<>>
           /\ req[r].calls = <<>>

C12_Witness ==
    \E r \in Slots :
        /\ req[r].kind = "PairDevice"
        /\ req[r].adapter = MacAA
        /\ req[r].mac = <<>>
        /\ req[r].pc = "done"
        /\ req[r].status = 400
        /\ req[r].ops = <<>>
        /\ AdaptersWith(tree, MacAA) # {}

\* C13: a command request with non-empty parameters whose adapter MAC
\* resolves to P invokes GetAdapterPathByMAC once, then the manager command
\* of its handler once with (P, device MAC), and nothing else; it answers
\* 200 exactly when the command returned no error, and 500 otherwise.
C13_ResolveOnceCommandOnce ==
    [][\A r \in Slots :
          (req[r].kind \in Commands /\ req'[r] # req[r]) =>
            LET resolution == [op |-> "GetAdapterPathByMAC", adapterPath |-> <<>>,
                               mac |-> req[r].adapter]
                command == [op |-> req[r].kind, adapterPath |-> req[r].path,
                            mac |-> req[r].mac]
            IN  /\ (req[r].pc = "resolve" /\ req'[r].pc = "call") =>
                      /\ req'[r].ops = <<resolution>>
                      /\ req'[r].path \in AdaptersWith(tree, req[r].adapter)
                /\ req[r].pc = "call" =>
                      /\ req'[r].pc = "done"
                      /\ req'[r].ops = <<resolution, command>>
                      /\ Len(NewCalls(r)) = 1
                      /\ req'[r].status \in {200, 500}
                      /\ req'[r].status = 200 <=> req'[r].err = Nil
                      /\ req'[r].status = 200 <=> NewCalls(r)[1].reply = ""]_vars

C13_Witness ==
    \E r \in Slots :
        /\ req[r].kind = "RemoveDevice"
        /\ req[r].adapter = MacBB
        /\ req[r].mac = MacAA
        /\ req[r].pc = "done"
        /\ req[r].path = H10
        /\ req[r].status = 500
        /\ Len(req[r].ops) = 2
        /\ req[r].ops[2] = [op |-> "RemoveDevice", adapterPath |-> H10, mac |-> MacAA]
        /\ req[r].err.mac = MacAA

\* C16: whatever tree changes and calls came before, every call of
\* GetAdapters, GetDevices, GetTrustedDevices, GetConnectedDevices and
\* GetAdapterPathByMAC makes one fetch, and what it returns is read from
\* the tree as it is at that call: the adapters, the devices under the
\* prefix (those trusted, those connected), the adapter with the address.
C16_EveryCallReadsTheLiveTree ==
    [][mgr' # mgr =>
          LET got == mgr'.val
              p == mgr'.adapterPath
              under == DevicesUnder(tree, p)
              flag(q, n) == Prop(tree, q, DeviceInterface, n, FALSE)
              expected == CASE mgr'.op = "GetTrustedDevices" ->
                                    {q \in under : flag(q, "Trusted")}
                            [] mgr'.op = "GetConnectedDevices" ->
                                    {q \in under : flag(q, "Connected")}
                            [] OTHER -> under
          IN  /\ Len(mgr'.calls) = 1
              /\ IsFetch(mgr'.calls[1])
              /\ (mgr'.err = Nil /\ mgr'.op = "GetAdapters") =>
                    /\ {got[i].Path : i \in 1..Len(got)}
                          = {q \in DOMAIN tree : AdapterInterface \in DOMAIN tree[q]}
                    /\ \A i \in 1..Len(got) :
                          /\ got[i].Address = AddressIn(tree, got[i].Path)
                          /\ got[i].Powered
                                = Prop(tree, got[i].Path, AdapterInterface, "Powered", FALSE)
              /\ (mgr'.err = Nil /\ mgr'.op \in {"GetDevices"} \cup Queries) =>
                    /\ {got[i].Path : i \in 1..Len(got)} = expected
                    /\ Len(got) = Cardinality(expected)
                    /\ \A i \in 1..Len(got) :
                          /\ got[i].Trusted = flag(got[i].Path, "Trusted")
                          /\ got[i].Connected = flag(got[i].Path, "Connected")
                          /\ got[i].Address
                                = Prop(tree, got[i].Path, DeviceInterface, "Address", <<>>)
              /\ mgr'.op = "GetAdapterPathByMAC" =>
                    /\ mgr'.err = Nil => mgr'.path \in AdaptersWith(tree, mgr'.mac)
                    /\ IsNotFound(mgr'.err, mgr'.mac) => AdaptersWith(tree, mgr'.mac) = {}]_vars

\* A call has returned the adapter at H1 with its address, and the tree has
\* changed since: H1 is gone, another adapter is there.
C16_Witness ==
    /\ mgr.pc = "done"
    /\ mgr.op = "GetAdapterPathByMAC"
    /\ mgr.mac = MacAA
    /\ mgr.err = Nil
    /\ mgr.path = H1
    /\ H1 \notin DOMAIN tree
    /\ AdaptersWith(tree, MacAA) = {H10}

\* C17: GetAdapterPathByMAC(mac) never returns an adapter whose Address
\* differs from mac, be it only in letter case, and returns the not-found
\* error when adapters match mac only up to letter case and none exactly.
C17_MatchIsCaseSensitive ==
    [][(mgr' # mgr /\ mgr'.op = "GetAdapterPathByMAC" /\ ~IsFetchError(mgr'.err)) =>
          LET adapters == {q \in DOMAIN tree : AdapterInterface \in DOMAIN tree[q]}
              caseOnly == {q \in adapters : /\ AddressIn(tree, q) # mgr'.mac
                                            /\ ToLower(AddressIn(tree, q)) = ToLower(mgr'.mac)}
          IN  /\ \A q \in caseOnly : ~(mgr'.err = Nil /\ mgr'.path = q)
              /\ (caseOnly # {} /\ AdaptersWith(tree, mgr'.mac) = {})
                 => IsNotFound(mgr'.err, mgr'.mac)]_vars

C17_Witness ==
    /\ mgr.pc = "done"
    /\ mgr.op = "GetAdapterPathByMAC"
    /\ mgr.mac = <<"A", ":", "a">>
    /\ IsNotFound(mgr.err, mgr.mac)
    /\ H1 \in DOMAIN tree
    /\ AddressIn(tree, H1) = MacAA
    /\ ToLower(mgr.mac) = MacAA

\* C19: GetTrustedDevices and GetConnectedDevices each make exactly one
\* remote call, the bulk query, whether it fails or not; and
\* GetConnectedDevices(p) returns, for a sequence D that GetDevices(p)
\* returns on the same tree, exactly the elements of D with Connected =
\* true, in D's order.
C19_FiltersMakeOneFetch ==
    [][(mgr' # mgr /\ mgr'.op \in {"GetTrustedDevices", "GetConnectedDevices"}) =>
          /\ Len(mgr'.calls) = 1
          /\ IsFetch(mgr'.calls[1])
          /\ (mgr'.op = "GetConnectedDevices" /\ mgr'.err = Nil) =>
                \E ord \in RangeOrders(tree, DeviceInterface) :
                   LET D == GetDevices(tree, mgr'.adapterPath, "ok", ord).val
                       C == mgr'.val
                   IN  \E at \in [1..Len(C) -> 1..Len(D)] :
                          /\ \A i, j \in 1..Len(C) : i < j => at[i] < at[j]
                          /\ \A i \in 1..Len(C) : C[i] = D[at[i]]
                          /\ {at[i] : i \in 1..Len(C)} = {j \in 1..Len(D) : D[j].Connected}]_vars

C19_Witness ==
    /\ mgr.pc = "done"
    /\ mgr.op = "GetConnectedDevices"
    /\ mgr.adapterPath = H1
    /\ mgr.err = Nil
    /\ Len(mgr.calls) = 1
    /\ Len(mgr.val) = 1
    /\ mgr.val[1].Path = D1a
    /\ D1b \in DOMAIN tree
    /\ tree[D1b][DeviceInterface] = DeviceProps(MacBB, TRUE, FALSE)

\* The endpoints that change the token store or the Bluetooth service.
Mutating == {"CreateToken", "DeleteToken"} \cup Commands \cup Patches

\* Whether the request carries Basic credentials whose username is in the
\* table st with the password as its token.
Valid(w, st) == w.auth /\ Row(w.user, w.pass) \in st

\* The usernames the table st has a row for.
Users(st) == {x.username : x \in st}

\* Whether the gate has handed the request to its handler and the handler
\* has not answered yet.
Passed(w) == w.pc \in {"next", "check", "insert", "handler"}

\* What holds of the gate whatever it answers to the other requests: a
\* request to a mutating endpoint goes through the gate without a write to
\* the store or a call to the Bluetooth service, it is handed to its handler
\* only with valid credentials, and the store or the Bluetooth service is
\* written or called only for a request the gate has handed to its handler.
GateGuards(rejections) ==
    /\ \A r \in Slots :
          (web[r].pc = "idle" /\ web'[r].pc # "idle" /\ web'[r].route \in Mutating) =>
             /\ store' = store /\ tree' = tree /\ req' = req
             /\ web'[r].stmts = <<>>
             /\ web'[r].pc = "next" => Valid(web'[r], store)
             /\ ~Valid(web'[r], store) =>
                   web'[r].pc = "done" /\ web'[r].status \in rejections
             /\ web'[r].status = 500 =>
                   web'[r].gate = <<"SELECT token">> /\ web'[r].msg = "database error"
    /\ (\/ store' # store
        \/ tree' # tree
        \/ \E r \in Slots : Len(req'[r].calls) > Len(req[r].calls)
        \/ \E r \in Slots : Len(web'[r].stmts) > Len(web[r].stmts))
       => \E r \in Slots : Passed(web[r])

C15_ReleasedOnce == conn.releases <= 1

\* The steps of CreateToken: empty fields; the existence check on a
\* username the store has; the check and the insert on one it has not.
\* failed: the statuses a step may answer when its statement fails.
CreateTokenSteps(failed) ==
    \A r \in Slots :
        (web[r].route = "CreateToken" /\ web'[r].route = "CreateToken"
         /\ web'[r] # web[r]) =>
          LET w == web[r]
              added == store \cup {Row(w.name, w.token)}
              inserts == {i \in 1..Len(web'[r].stmts) : web'[r].stmts[i] = "INSERT"}
          IN  /\ (w.pc = "next" /\ (w.name = "" \/ w.token = "")) =>
                    /\ web'[r].pc = "done" /\ web'[r].status = 400
                    /\ web'[r].stmts = <<>>
                    /\ store' = store
              /\ (w.pc = "check" /\ w.name \in Users(store)) =>
                    /\ web'[r].pc = "done" /\ web'[r].status \in {409} \cup failed
                    /\ inserts = {}
                    /\ store' = store
              /\ (w.pc = "check" /\ w.name \notin Users(store)) =>
                    \/ web'[r].pc = "insert"
                    \/ web'[r].pc = "done" /\ web'[r].status \in failed
              /\ (w.pc = "insert" /\ w.name \notin Users(store)) =>
                    /\ web'[r].pc = "done"
                    /\ \/ /\ web'[r].status = 201
                          /\ store' = added
                          /\ Cardinality(inserts) = 1
                       \/ /\ web'[r].status \in failed
                          /\ store' = store

\* C20 as claimed: CreateToken for a username the store has answers 409,
\* inserts nothing and leaves the store as it is; with an empty username or
\* token it answers 400 without a statement on the database; for a new
\* username it inserts one row and answers 201.
C20_CreateToken == [][CreateTokenSteps({})]_vars

\* C20 as amended: the same, but CreateToken answers 500, and leaves the
\* store as it is, when its existence query or its insert fails in the
\* database.
C20_CreateTokenOr500 == [][CreateTokenSteps({500})]_vars

C20_Witness ==
    \E r \in Slots :
        /\ web[r].route = "CreateToken"
        /\ web[r].pc = "done"
        /\ web[r].status = 201
        /\ web[r].name = "u2"
        /\ web[r].stmts = <<"SELECT token", "INSERT">>
        /\ store = {Row("u1", "t1"), Row("u2", web[r].token)}

\* The steps of DeleteToken and of GetToken: DeleteToken with an empty
\* username, with a username the store has and with one it has not;
\* GetToken for a username the store has not.  failed: the statuses a
\* step may answer when its statement fails.
DeleteTokenSteps(failed) ==
    \A r \in Slots :
        (web[r].pc = "next" /\ web'[r] # web[r]) =>
          LET w == web[r]
              without == {x \in store : x.username # w.name}
          IN  /\ (w.route = "DeleteToken" /\ w.name = "") =>
                    /\ web'[r].pc = "done" /\ web'[r].status = 400
                    /\ web'[r].stmts = <<>>
                    /\ store' = store
              /\ (w.route = "DeleteToken" /\ w.name \in Users(store)) =>
                    /\ web'[r].pc = "done"
                    /\ \/ /\ web'[r].status = 200
                          /\ store' = without
                          /\ w.name \notin Users(store')
                       \/ /\ web'[r].status \in failed
                          /\ store' \in {store, without}
              /\ (w.route = "DeleteToken" /\ w.name # "" /\ w.name \notin Users(store)) =>
                    /\ web'[r].pc = "done"
                    /\ web'[r].status \in {404} \cup failed
                    /\ store' = store
              /\ (w.route = "GetToken" /\ w.name # "" /\ w.name \notin Users(store)) =>
                    /\ web'[r].pc = "done"
                    /\ web'[r].status \in {404} \cup failed
                    /\ store' = store

\* C21 as claimed: DeleteToken answers 200 and removes the row of a username
\* the store has, answers 404 and leaves the store as it is when no row was
\* affected, and answers 400 without a statement on the database when the
\* username is empty; GetToken for a username whose row was deleted
\* answers 404.
C21_DeleteToken == [][DeleteTokenSteps({})]_vars

\* C21 as amended: the same, but DeleteToken answers 500 when its statement
\* fails in the database, the store left as it is, or when the count of the
\* affected rows cannot be read, the row removed; and GetToken answers 500
\* when its query fails.
C21_DeleteTokenOr500 == [][DeleteTokenSteps({500})]_vars

C21_Witness ==
    \E r \in Slots :
        /\ web[r].route = "DeleteToken"
        /\ web[r].pc = "done"
        /\ web[r].status = 200
        /\ web[r].name = "u2"
        /\ web[r].stmts = <<"DELETE">>
        /\ store = {Row("u1", "t1")}

\* A step taken on an empty store: the store stays empty, the Bluetooth
\* service is neither called nor changed, and a request that arrives is
\* answered by the gate, with one of the statuses of rejections, before any
\* statement of a handler.
EmptyStoreStep(rejections) ==
    store = NoTokens =>
        /\ store' = NoTokens
        /\ tree' = tree
        /\ \A r \in Slots :
              /\ Len(req'[r].calls) <= Len(req[r].calls)
              /\ (web[r].pc = "idle" /\ web'[r].pc # "idle") =>
                    /\ web'[r].pc = "done"
                    /\ web'[r].status \in rejections
                    /\ web'[r].stmts = <<>>

Response(w) == <<w.status, w.msg, w.header>>

\* Credentials whose username the table st has no row for, and credentials
\* whose username it has a row for, with another token than the password.
UnknownUser(c, st) == c.auth /\ c.user # "" /\ c.pass # "" /\ c.user \notin Users(st)
WrongPassword(c, st) ==
    c.auth /\ c.pass # "" /\ c.user \in Users(st) /\ Row(c.user, c.pass) \notin st

\* On the store as it is, the gate answers a request with an unknown
\* username as it answers, the database behaving the same, a request with a
\* known username and a wrong password, with one of statuses; and every
\* 401 the gate has answered after its lookup has one body and the header.
GateTellsNothing(statuses) ==
    /\ \A c1 \in Credentials, c2 \in Credentials, dbOk \in BOOLEAN :
          (UnknownUser(c1, store) /\ WrongPassword(c2, store)) =>
             LET a == AuthMiddleware([NoRequest EXCEPT !.auth = c1.auth, !.user = c1.user,
                                                       !.pass = c1.pass], store, dbOk)
                 b == AuthMiddleware([NoRequest EXCEPT !.auth = c2.auth, !.user = c2.user,
                                                       !.pass = c2.pass], store, dbOk)
             IN  /\ a.pc = "done" /\ b.pc = "done"
                 /\ Response(a) = Response(b)
                 /\ a.status \in statuses
    /\ \A r \in Slots :
          (web[r].pc = "done" /\ web[r].status = 401 /\ web[r].gate # <<>>) =>
             Response(web[r]) = <<401, "invalid credentials", TRUE>>

\* C29 as claimed: the gate answers a request whose username is not in the
\* store as it answers one whose username is there with another token:
\* status 401, the same body, the same WWW-Authenticate header.
C29_SameRejection401 == GateTellsNothing({401})

\* C29 as amended: the two answers are the same: 401 with one body and the
\* header, or, when the gate's lookup fails in the database, 500 with one
\* body for both.
C29_SameRejection == GateTellsNothing({401, 500})

C29_Witness ==
    \E r \in Slots :
        /\ store = {Row("u1", "t1")}
        /\ web[r].user = "u2"
        /\ web[r].pass = "t1"
        /\ web[r].pc = "done"
        /\ Response(web[r]) = <<401, "invalid credentials", TRUE>>

\* C24: whenever GetAdapterPathByMAC(mac) returns without error, several
\* adapters sharing the address or not, the path it returns is the
\* identifier of an adapter object of the tree it fetched whose Address is
\* mac, the first such adapter in some order of the range over the tree;
\* never a path absent from the tree or an adapter with another address.
C24_ReturnsAMatchingAdapter ==
    [][(mgr' # mgr /\ mgr'.op = "GetAdapterPathByMAC" /\ mgr'.err = Nil) =>
          /\ mgr'.path \in DOMAIN tree
          /\ AdapterInterface \in DOMAIN tree[mgr'.path]
          /\ AddressIn(tree, mgr'.path) = mgr'.mac
          /\ \E ord \in RangeOrders(tree, AdapterInterface) :
                LET first == CHOOSE i \in 1..Len(ord) :
                                /\ ord[i] \in AdaptersWith(tree, mgr'.mac)
                                /\ \A j \in 1..(i - 1) :
                                      ord[j] \notin AdaptersWith(tree, mgr'.mac)
                IN  mgr'.path = ord[first]]_vars

\* Two adapters have the address asked for; the call returned one of them.
C24_Witness ==
    /\ mgr.pc = "done"
    /\ mgr.op = "GetAdapterPathByMAC"
    /\ mgr.mac = MacAA
    /\ mgr.err = Nil
    /\ mgr.path = H10
    /\ AdaptersWith(tree, MacAA) = {H1, H10}

\* The operations of the manager that only read.
ReadOps == {"GetAdapters", "GetAdapterPathByMAC"} \cup Queries

\* C28: a read request (GetAdapters, GetDevices, GetTrustedDevices,
\* GetConnectedDevices) and the resolution step of any request
\* (GetAdapterPathByMAC) invoke only read operations of the manager, every
\* remote call they make is the bulk query, never Connect, Pair, a
\* property-set or RemoveDevice, and the service's tree is the same after
\* the step as before it.
C28_ReadsOnlyFetch ==
    [][\A r \in Slots :
          (req'[r] # req[r]
           /\ (req'[r].kind \in Queries \cup {"GetAdapters"} \/ req[r].pc = "resolve")) =>
             /\ tree' = tree
             /\ \A i \in 1..Len(req'[r].calls) :
                   /\ IsFetch(req'[r].calls[i])
                   /\ req'[r].calls[i].member
                         \notin {"Connect", "Pair", "Set", "RemoveDevice"}
             /\ \A i \in 1..Len(req'[r].ops) : req'[r].ops[i].op \in ReadOps]_vars

\* A GetTrustedDevices request has answered the trusted device of the
\* adapter after two fetches, and the device is in the tree as it was.
C28_Witness ==
    \E r \in Slots :
        /\ req[r].kind = "GetTrustedDevices"
        /\ req[r].pc = "done"
        /\ req[r].status = 200
        /\ Len(req[r].calls) = 2
        /\ Len(req[r].body) = 1
        /\ req[r].body[1].Path = D1a
        /\ D1a \in DOMAIN tree
        /\ tree[D1a] = DeviceObject(DeviceProps(MacAA, TRUE, TRUE))

\* C27: the command step of a request works on the adapter path its
\* resolve step returned, whatever the tree has become since: it issues
\* one command call, against the device identifier built from that path
\* and the device MAC; and when the object the call addresses (the device,
\* and for RemoveDevice the adapter too) is no longer in the tree, the call
\* fails, the tree stays as it is and the request answers 500, not 404.
C27_CommandOnEarlierSnapshot ==
    [][\A r \in Slots :
          (req[r].pc = "call" /\ req[r].kind \in Commands /\ req'[r] # req[r]) =>
             LET device == DeviceIdFor(req[r].path, req[r].mac)
                 call == NewCalls(r)[1]
                 gone == \/ ~Exposes(tree, device, DeviceInterface)
                         \/ /\ req[r].kind = "RemoveDevice"
                            /\ ~Exposes(tree, req[r].path, AdapterInterface)
             IN  /\ Len(NewCalls(r)) = 1
                 /\ ~IsFetch(call)
                 /\ IF req[r].kind = "RemoveDevice"
                    THEN call.path = req[r].path /\ call.args[1] = device
                    ELSE call.path = device
                 /\ gone => /\ req'[r].pc = "done"
                            /\ req'[r].status = 500
                            /\ req'[r].err # Nil
                            /\ tree' = tree]_vars

\* A ConnectDevice request resolved its adapter to H1; H1 and its device
\* were gone when the Connect call was made, and the request answered 500.
C27_Witness ==
    \E r \in Slots :
        /\ req[r].kind = "ConnectDevice"
        /\ req[r].pc = "done"
        /\ req[r].path = H1
        /\ req[r].status = 500
        /\ Len(req[r].calls) = 2
        /\ req[r].calls[2].member = "Connect"
        /\ req[r].calls[2].path = D1a
        /\ H1 \notin DOMAIN tree
        /\ D1a \notin DOMAIN tree

\* C22: nothing coordinates two requests: whatever the other request is
\* doing, a request that has to resolve its adapter can resolve it, a
\* request that has resolved it can issue its command, and a new request
\* can begin; so once a Pair and a Remove of one device have both resolved
\* the adapter, either command call can be the first.
C22_NoCoordination ==
    \A r \in RaceSlots :
        /\ req[r].pc = "resolve" => ENABLED Resolve(r)
        /\ req[r].pc = "call" => ENABLED RunCommand(r)
        /\ req[r].pc \in {"idle", "done"} => ENABLED Begin(r, "PairDevice", MacAA, MacAA)

\* A Pair and a Remove of the device D1a have both resolved the adapter;
\* neither has issued its command.
C22_Witness ==
    /\ req["r1"].kind = "PairDevice"
    /\ req["r2"].kind = "RemoveDevice"
    /\ \A r \in RaceSlots :
          /\ req[r].pc = "call"
          /\ req[r].path = H1
          /\ req[r].mac = MacAA
    /\ D1a \in DOMAIN tree

\* The table has one row at most for a username.
OneTokenPerUsername == \A x \in store, y \in store : x.username = y.username => x = y

\* The insert of a CreateToken request: refused, the store left as it is,
\* when the store has a row for the username by then; else the row is
\* added and the request answers 201, or the insert fails.
InsertSteps ==
    \A r \in TokenSlots :
        (web[r].pc = "insert" /\ web'[r] # web[r]) =>
            /\ web'[r].pc = "done"
            /\ IF web[r].name \in Users(store)
               THEN web'[r].status = 500 /\ store' = store
               ELSE \/ /\ web'[r].status = 201
                       /\ store' = store \cup {Row(web[r].name, web[r].token)}
                    \/ web'[r].status = 500 /\ store' = store

\* Whether request r is a CreateToken for username that has made its
\* insert, after its existence check, and has answered.
Inserted(r, username) ==
    /\ web[r].route = "CreateToken"
    /\ web[r].name = username
    /\ web[r].pc = "done"
    /\ web[r].stmts = <<"SELECT token", "INSERT">>

\* Two CreateToken requests for one username have both passed the
\* existence check and made their insert, and no other request has run a
\* statement for the username: the number of them that answered 201 is in
\* created, the others answered an error status, and the store has the
\* token of the one that answered 201, or no row of the username when
\* none did.
BothInserted(created) ==
    \A r \in TokenSlots : \A o \in TokenSlots \ {r} :
        (/\ Inserted(r, web[r].name) /\ Inserted(o, web[r].name)
         /\ \A d \in TokenSlots \ {r, o} :
               web[d].name = web[r].name => web[d].stmts = <<>>) =>
            /\ Cardinality({s \in {r, o} : web[s].status = 201}) \in created
            /\ \A s \in {r, o} : web[s].status \in {201, 500}
            /\ web[r].status = 201 => Row(web[r].name, web[r].token) \in store
            /\ (web[r].status # 201 /\ web[o].status # 201) =>
                  web[r].name \notin Users(store)

\* C25 as claimed: after any interleaving of CreateToken and DeleteToken
\* requests the store has one token at most for a username; and of two
\* CreateToken requests for one new username that both passed the
\* existence check before either inserted, exactly one answers 201, the
\* other an error status, and the stored token is that of the 201.
C25_OneCreated == [](OneTokenPerUsername /\ BothInserted({1}))

\* C25 as amended: the same, but both requests answer 500, and no row is
\* stored, when the insert of each fails in the database; an insert made
\* while the store has a row of the username always answers 500 and leaves
\* the store as it is.
C25_OneCreatedAtMost ==
    [](OneTokenPerUsername /\ BothInserted({0, 1})) /\ [][InsertSteps]_vars

\* Both requests passed the check before either inserted; the first
\* answered 201 and its token is stored, the second answered 500.
C25_Witness ==
    /\ web["r1"].route = "CreateToken" /\ web["r2"].route = "CreateToken"
    /\ web["r1"].token = "t1" /\ web["r2"].token = "t2"
    /\ web["r1"].pc = "done" /\ web["r2"].pc = "done"
    /\ web["r1"].stmts = <<"SELECT token", "INSERT">>
    /\ web["r2"].stmts = <<"SELECT token", "INSERT">>
    /\ web["r1"].status = 500
    /\ web["r2"].status = 201
    /\ web["r3"].pc = "idle"
    /\ store = {Row("u1", "t1"), Row("u2", "t2")}

\* The calls on the ConfigManager.  EnsureConfig that returns no error
\* leaves the file there with the expected content; EnsureConfig called
\* after an EnsureConfig that returned no error leaves the file system as
\* it is; RemoveConfig on a missing file leaves the file system as it is
\* and returns no error.  strict: the last two hold of a call whatever its
\* file-system calls do; else of an EnsureConfig that returns no error, and
\* of a RemoveConfig whose os.Stat reports that the file does not exist.
ConfigSteps(strict) ==
    cfg' # cfg =>
        /\ (cfg'.op = "EnsureConfig" /\ cfg'.err = "") =>
              cfg'.fs = FileWith(WirePlumberConfigContent)
        /\ (/\ cfg'.op = "EnsureConfig"
            /\ cfg.op = "EnsureConfig" /\ cfg.err = ""
            /\ (strict \/ cfg'.err = "")) => cfg'.fs = cfg.fs
        /\ (cfg'.op = "RemoveConfig" /\ ~cfg.fs.exists) =>
              /\ cfg'.fs = cfg.fs
              /\ (strict \/ cfg'.calls[1].res = "notExist") => cfg'.err = ""

C23_NoFailureIsFatal ==
    /\ mgr.pc # "exited"
    /\ \A r \in Slots :
          (mgr.pc = "done" /\ req[r].pc = "done" /\ req[r].status >= 400) =>
             ENABLED HandleGetAdapters(r)

====
